---- MODULE Spec2Model ----
(***************************************************************************)
(* Territories: the tick engine of src/src/binding.c (the core that the    *)
(* file embeds from territories.h), the bitset of utils/bitset.h and the   *)
(* shuffle of src/src/utils/helper.h.                                      *)
(*                                                                         *)
(* The environment is a record e with the fields of struct Territories and *)
(* of its AgentManager (e.am).  Every C function is an operator from       *)
(* environments to environments, written in the order of the C statements. *)
(* A call of c_step or c_reset by the host is one action.                  *)
(***************************************************************************)
EXTENDS Integers, Sequences, FiniteSets, TLC

\* ========== CORE CONSTANTS (binding.c 387-402) ==========
MAX_GROWTH_DURATION == 70
STARTING_DAY == 55
SUMMER_DURATION == 100
WINTER_DURATION == 10
WALL_HP_MAX == 8
MAX_SATIATION == 100
MAX_HP == 3
MAX_FOOD_CARRYING_CAPACITY == 150
MAX_STONE_CARRYING_CAPACITY == 10
MAX_FOOD_STORAGE_CAPACITY == 150
STONE_PER_MINE == 600
METABOLISM_RATE == 5
REPRODUCTION_AGE == 10

\* enum Action
MOVE_UP == 0
MOVE_RIGHT == 1
MOVE_DOWN == 2
MOVE_LEFT == 3
NOOP == 4
PICKUP == 5
MINE == 6
PACKAGE_FOOD == 7
BUILD_WALL == 8
ATTACK == 9
REPRODUCE == 10

\* DELTAS[dir] = <<dr, dc>>, dir = 0..3 (up, right, down, left)
DELTAS == << <<-1, 0>>, <<0, 1>>, <<1, 0>>, <<0, -1>> >>

\* ATTACK_SWORD[dir][k] = <<dr, dc>>, the three cells of the forward arc
ATTACK_SWORD ==
  << << <<-1, -1>>, <<-1, 0>>, <<-1, 1>> >>,
     << <<-1, 1>>,  <<0, 1>>,  <<1, 1>> >>,
     << <<1, -1>>,  <<1, 0>>,  <<1, 1>> >>,
     << <<-1, -1>>, <<0, -1>>, <<1, -1>> >> >>

\* (int)(exp(K * growth_days) - 1) for growth_days = 1..70, K = 0.07167543,
\* evaluated in double precision as the C expression is
CropTable ==
  << 0, 0, 0, 0, 0, 0, 0, 0, 0, 1, 1, 1, 1, 1,
     1, 2, 2, 2, 2, 3, 3, 3, 4, 4, 5, 5, 5, 6,
     6, 7, 8, 8, 9, 10, 11, 12, 13, 14, 15, 16, 17, 19,
     20, 22, 24, 26, 28, 30, 32, 35, 37, 40, 43, 46, 50, 54,
     58, 62, 67, 72, 78, 84, 90, 97, 104, 112, 120, 129, 139, 150 >>

crop_available(growth_days) == CropTable[growth_days]

\* ========== C arithmetic ==========
Min(a, b) == IF a < b THEN a ELSE b
Max(a, b) == IF a > b THEN a ELSE b

\* C integer division and remainder truncate toward zero (b > 0 here)
CDiv(a, b) == IF a >= 0 THEN a \div b ELSE -((-a) \div b)
CMod(a, b) == IF a >= 0 THEN a % b ELSE -((-a) % b)

\* ========== STATE ==========
VARIABLES
  cfg,                \* the configuration the host put in the struct before init
  agents,             \* Agent agents[max_agents]
  am,                 \* AgentManager: alive_mask, alive_bitset, free_pids,
                      \*   alive_pids, free_count, alive_count, next_pid
  pids_2d,            \* short pids_2d[height*width], -1 for empty
  tile_props,         \* per cell: last_harvest, stored_food, stone, wall_hp
  dnas,               \* unsigned char dnas[max_agents][n_genes]
  kinship_matrix,     \* unsigned char kinship_matrix[max_agents][max_agents]
  family_sizes,
  prev_family_sizes,
  tick,
  is_winter,
  next_max_ep_length, \* the episode budget drawn at reset
  actions,            \* the host's action buffer as read by the last c_step
  rewards,            \* delta reward numerators: family_sizes - prev_family_sizes;
                      \*   growth-rate rewards as [ext, logged, num, den]
  terminals,
  truncations,
  fault,              \* assertions that failed / out-of-bounds accesses made
  hist                \* what the last call did (for stating the properties)

vars == << cfg, agents, am, pids_2d, tile_props, dnas, kinship_matrix,
           family_sizes, prev_family_sizes, tick, is_winter,
           next_max_ep_length, actions, rewards, terminals, truncations,
           fault, hist >>

\* The environment as one value.
Env ==
  [ cfg |-> cfg, agents |-> agents, am |-> am, pids_2d |-> pids_2d,
    tile_props |-> tile_props, dnas |-> dnas,
    kinship_matrix |-> kinship_matrix, family_sizes |-> family_sizes,
    prev_family_sizes |-> prev_family_sizes, tick |-> tick,
    is_winter |-> is_winter, next_max_ep_length |-> next_max_ep_length,
    actions |-> actions, rewards |-> rewards, terminals |-> terminals,
    truncations |-> truncations, fault |-> fault ]

PidsOf(e) == 0 .. (e.cfg.max_agents - 1)
CellsOf(e) == 0 .. (e.cfg.width * e.cfg.height - 1)
GenesOf(e) == 0 .. (e.cfg.n_genes - 1)

Adr(e, r, c) == r * e.cfg.width + c

day_number_of(t) == (t + STARTING_DAY) % (SUMMER_DURATION + WINTER_DURATION)

\* ========== BITSET (utils/bitset.h) ==========
\* The words of the bitset are the set of the ids whose bit is 1.
bitset_add(bs, max_num, x) == IF x >= max_num \/ x < 0 THEN bs ELSE bs \cup {x}

bitset_remove(bs, max_num, x) == IF x >= max_num \/ x < 0 THEN bs ELSE bs \ {x}

bitset_contains(bs, max_num, x) == IF x >= max_num \/ x < 0 THEN FALSE ELSE x \in bs

\* the lowest set bit
MinOf(S) == CHOOSE x \in S : \A y \in S : x <= y

RECURSIVE Ascending(_)
Ascending(S) == IF S = {} THEN << >> ELSE << MinOf(S) >> \o Ascending(S \ {MinOf(S)})

\* bitset_update_members: members[0..n) filled in ascending order, the rest of
\* the array untouched; returns n.
bitset_update_members(bs, members) ==
  LET fill(out) ==
        [ n_members |-> Len(out),
          members |-> [ i \in DOMAIN members |->
                          IF i < Len(out) THEN out[i + 1] ELSE members[i] ] ]
  IN fill(Ascending(bs))

\* ========== SHUFFLE (utils/helper.h) ==========
\* Fisher-Yates from i = n-1 down to 1; draws[i] is the value of rand() used
\* at index i.
RECURSIVE shuffle_from(_, _, _)
\* variant: array[i] takes array[j] and array[j] is left as it was
shuffle_from_copies(array, i, draws) ==
  IF i <= 0 THEN array
  ELSE LET j == draws[i] % (i + 1)
       IN shuffle_from([array EXCEPT ![i] = array[j]], i - 1, draws)

shuffle_from(array, i, draws) ==
  IF i <= 0 THEN array
  ELSE LET j == draws[i] % (i + 1)
       IN shuffle_from([array EXCEPT ![i] = array[j], ![j] = array[i]], i - 1, draws)

shuffle(array, n, draws) == shuffle_from(array, n - 1, draws)

\* ========== KINSHIP ==========
RECURSIVE SumOver(_, _)
SumOver(f, S) ==
  IF S = {} THEN 0
  ELSE LET x == CHOOSE y \in S : TRUE IN f[x] + SumOver(f, S \ {x})

kinship_get(e, pid1, pid2) ==
  Cardinality({ g \in GenesOf(e) : e.dnas[pid1][g] = e.dnas[pid2][g] })

\* variant: only the diagonal is written
kinship_matrix_reset_diagonal(e) ==
  [e EXCEPT !.kinship_matrix =
     [ i \in PidsOf(e) |-> [ j \in PidsOf(e) |->
         IF i = j THEN e.cfg.n_genes ELSE e.kinship_matrix[i][j] ] ] ]

kinship_matrix_reset(e) ==
  [e EXCEPT !.kinship_matrix =
     [ i \in PidsOf(e) |-> [ j \in PidsOf(e) |->
         IF i = j THEN e.cfg.n_genes ELSE 0 ] ] ]

\* variant: only the row of pid is written
kinship_matrix_update_row_only(e, pid) ==
  LET write(others, k) ==
        [e EXCEPT
           !.kinship_matrix[pid] =
              [ j \in PidsOf(e) |-> IF j \in others THEN k[j] ELSE @[j] ],
           !.prev_family_sizes[pid] = e.cfg.n_genes + SumOver(k, others) ]
  IN write({ p \in PidsOf(e) : e.am.alive_mask[p] /\ p # pid },
           [ p \in PidsOf(e) |-> kinship_get(e, pid, p) ])

\* variant: only the slots above pid are visited
kinship_matrix_update_above(e, pid) ==
  LET write(others, k) ==
        [e EXCEPT
           !.kinship_matrix =
              [ i \in PidsOf(e) |-> [ j \in PidsOf(e) |->
                  IF i = pid /\ j \in others THEN k[j]
                  ELSE IF j = pid /\ i \in others THEN k[i]
                  ELSE e.kinship_matrix[i][j] ] ],
           !.prev_family_sizes[pid] = e.cfg.n_genes + SumOver(k, others) ]
  IN write({ p \in PidsOf(e) : e.am.alive_mask[p] /\ p > pid },
           [ p \in PidsOf(e) |-> kinship_get(e, pid, p) ])

kinship_matrix_update(e, pid) ==
  LET write(others, k) ==
        [e EXCEPT
           !.kinship_matrix =
              [ i \in PidsOf(e) |-> [ j \in PidsOf(e) |->
                  IF i = pid /\ j \in others THEN k[j]
                  ELSE IF j = pid /\ i \in others THEN k[i]
                  ELSE e.kinship_matrix[i][j] ] ],
           !.prev_family_sizes[pid] = e.cfg.n_genes + SumOver(k, others) ]
  IN write({ p \in PidsOf(e) : e.am.alive_mask[p] /\ p # pid },
           [ p \in PidsOf(e) |-> kinship_get(e, pid, p) ])

\* ========== AGENT MANAGEMENT ==========
ZeroAgent ==
  [ r |-> 0, c |-> 0, dir |-> 0, hp |-> 0, hp_max |-> 0, satiation |-> 0,
    max_satiation |-> 0, age |-> 0, food_carried |-> 0, stone_carried |-> 0,
    role |-> 0 ]

agent_manager_reset(e) ==
  [e EXCEPT !.am =
     [ alive_mask |-> [ p \in PidsOf(e) |-> FALSE ],
       alive_bitset |-> {},
       free_pids |-> [ i \in PidsOf(e) |-> 0 ],
       alive_pids |-> [ i \in PidsOf(e) |-> 0 ],
       free_count |-> 0, alive_count |-> 0, next_pid |-> 0 ] ]

\* variant: the slot freed first is reused
spawn_agent_oldest(e, r, c, dir_draw) ==
  IF e.am.alive_count >= e.cfg.max_agents THEN [ pid |-> -1, e |-> e ]
  ELSE
    LET reuse == e.am.free_count > 0
        pid == IF reuse THEN e.am.free_pids[0] ELSE e.am.next_pid
        am1 == [e.am EXCEPT
                  !.free_pids = IF reuse
                                THEN [ i \in DOMAIN @ |->
                                         IF i + 1 \in DOMAIN @ THEN @[i + 1] ELSE 0 ]
                                ELSE @,
                  !.free_count = IF reuse THEN @ - 1 ELSE @,
                  !.next_pid = IF reuse THEN @ ELSE @ + 1,
                  !.alive_mask[pid] = TRUE,
                  !.alive_count = @ + 1,
                  !.alive_bitset = bitset_add(@, e.cfg.max_agents, pid)]
        a1 == [e.agents[pid] EXCEPT
                  !.r = r, !.c = c, !.dir = dir_draw % 4,
                  !.hp = 1, !.hp_max = 1,
                  !.satiation = MAX_SATIATION, !.max_satiation = MAX_SATIATION,
                  !.age = 0, !.food_carried = 0, !.stone_carried = 0]
    IN [ pid |-> pid, e |-> [e EXCEPT !.am = am1, !.agents[pid] = a1] ]

\* variant: the reused slot stays on the free stack
spawn_agent_keeps_free(e, r, c, dir_draw) ==
  IF e.am.alive_count >= e.cfg.max_agents THEN [ pid |-> -1, e |-> e ]
  ELSE
    LET reuse == e.am.free_count > 0
        pid == IF reuse THEN e.am.free_pids[e.am.free_count - 1]
               ELSE e.am.next_pid
        am1 == [e.am EXCEPT
                  !.free_count = @,
                  !.next_pid = IF reuse THEN @ ELSE @ + 1,
                  !.alive_mask[pid] = TRUE,
                  !.alive_count = @ + 1,
                  !.alive_bitset = bitset_add(@, e.cfg.max_agents, pid)]
        a1 == [e.agents[pid] EXCEPT
                  !.r = r, !.c = c, !.dir = dir_draw % 4,
                  !.hp = 1, !.hp_max = 1,
                  !.satiation = MAX_SATIATION, !.max_satiation = MAX_SATIATION,
                  !.age = 0, !.food_carried = 0, !.stone_carried = 0]
    IN [ pid |-> pid, e |-> [e EXCEPT !.am = am1, !.agents[pid] = a1] ]

\* spawn_agent returns the slot (or -1) and the environment; dir_draw is the
\* value of rand() it takes the direction from.
spawn_agent(e, r, c, dir_draw) ==
  IF e.am.alive_count >= e.cfg.max_agents THEN [ pid |-> -1, e |-> e ]
  ELSE
    LET reuse == e.am.free_count > 0
        pid == IF reuse THEN e.am.free_pids[e.am.free_count - 1]
               ELSE e.am.next_pid
        am1 == [e.am EXCEPT
                  !.free_count = IF reuse THEN @ - 1 ELSE @,
                  !.next_pid = IF reuse THEN @ ELSE @ + 1,
                  !.alive_mask[pid] = TRUE,
                  !.alive_count = @ + 1,
                  !.alive_bitset = bitset_add(@, e.cfg.max_agents, pid)]
        a1 == [e.agents[pid] EXCEPT
                  !.r = r, !.c = c, !.dir = dir_draw % 4,
                  !.hp = 1, !.hp_max = 1,
                  !.satiation = MAX_SATIATION, !.max_satiation = MAX_SATIATION,
                  !.age = 0, !.food_carried = 0, !.stone_carried = 0]
    IN [ pid |-> pid, e |-> [e EXCEPT !.am = am1, !.agents[pid] = a1] ]

\* variant: alive_count is not decremented
kill_agent_keeps_count(e, pid) ==
  IF ~e.am.alive_mask[pid] THEN e
  ELSE [e EXCEPT !.am =
          [@ EXCEPT !.alive_mask[pid] = FALSE,
                    !.free_pids[e.am.free_count] = pid,
                    !.free_count = @ + 1,
                    !.alive_bitset = bitset_remove(@, e.cfg.max_agents, pid)]]

\* variant: the kinship row and column of the dead slot are cleared
kill_agent_clears_kin(e, pid) ==
  IF ~e.am.alive_mask[pid] THEN e
  ELSE [e EXCEPT !.am =
          [@ EXCEPT !.alive_mask[pid] = FALSE,
                    !.free_pids[e.am.free_count] = pid,
                    !.free_count = @ + 1,
                    !.alive_count = @ - 1,
                    !.alive_bitset = bitset_remove(@, e.cfg.max_agents, pid)],
                  !.kinship_matrix =
                    [ i \in PidsOf(e) |-> [ j \in PidsOf(e) |->
                        IF i # j /\ (i = pid \/ j = pid) THEN 0 ELSE @[i][j] ] ]]

kill_agent(e, pid) ==
  IF ~e.am.alive_mask[pid] THEN e
  ELSE [e EXCEPT !.am =
          [@ EXCEPT !.alive_mask[pid] = FALSE,
                    !.free_pids[e.am.free_count] = pid,
                    !.free_count = @ + 1,
                    !.alive_count = @ - 1,
                    !.alive_bitset = bitset_remove(@, e.cfg.max_agents, pid)]]

update_alive_pids(e) ==
  LET store(m) ==
        [e EXCEPT !.am.alive_pids = m.members,
                  !.fault = IF m.n_members = e.am.alive_count THEN @
                            ELSE @ \cup {"assert_update_alive_pids"}]
  IN store(bitset_update_members(e.am.alive_bitset, e.am.alive_pids))

\* ========== WORLD MECHANICS ==========
\* tile_props entries are unsigned short
U16(x) == x % 65536

ZeroTile == [ last_harvest |-> 0, stored_food |-> 0, stone |-> 0, wall_hp |-> 0 ]

get_growth_days(e, r, c) ==
  LET t == e.tile_props[Adr(e, r, c)]
  IN IF e.is_winter \/ ~e.cfg.is_soil[Adr(e, r, c)] \/ t.stored_food > 0
        \/ t.stone > 0 \/ t.wall_hp > 0
     THEN 0
     ELSE Min(day_number_of(e.tick) - t.last_harvest, MAX_GROWTH_DURATION)

\* variant: the crop timers are left as the winter found them
start_crop_growth_keeps(e) == e

start_crop_growth(e) ==
  [e EXCEPT !.tile_props =
     [ a \in CellsOf(e) |->
         IF e.cfg.is_soil[a] THEN [e.tile_props[a] EXCEPT !.last_harvest = 0]
         ELSE e.tile_props[a] ] ]

\* variant: the stored food of the tile survives the wall
place_wall_keeps_food(e, r, c) ==
  IF e.tile_props[Adr(e, r, c)].wall_hp > 0 THEN e
  ELSE [e EXCEPT !.tile_props[Adr(e, r, c)] =
          [ last_harvest |-> 0, stored_food |-> @.stored_food, stone |-> 0,
            wall_hp |-> WALL_HP_MAX ]]

place_wall(e, r, c) ==
  IF e.tile_props[Adr(e, r, c)].wall_hp > 0 THEN e
  ELSE [e EXCEPT !.tile_props[Adr(e, r, c)] =
          [ last_harvest |-> 0, stored_food |-> 0, stone |-> 0,
            wall_hp |-> WALL_HP_MAX ]]

\* variant: the crop timer is restarted on tiles that are not soil too
destroy_wall_any_tile(e, r, c) ==
  IF e.tile_props[Adr(e, r, c)].wall_hp = 0 THEN e
  ELSE LET e1 == [e EXCEPT !.tile_props[Adr(e, r, c)].wall_hp = 0]
       IN IF ~e.is_winter
          THEN [e1 EXCEPT !.tile_props[Adr(e, r, c)].last_harvest =
                            day_number_of(e.tick)]
          ELSE e1

destroy_wall(e, r, c) ==
  IF e.tile_props[Adr(e, r, c)].wall_hp = 0 THEN e
  ELSE LET e1 == [e EXCEPT !.tile_props[Adr(e, r, c)].wall_hp = 0]
       IN IF ~e.is_winter /\ e.cfg.is_soil[Adr(e, r, c)]
          THEN [e1 EXCEPT !.tile_props[Adr(e, r, c)].last_harvest =
                            day_number_of(e.tick)]
          ELSE e1

tile_is_blocked(e, r, c) ==
  \/ e.tile_props[Adr(e, r, c)].wall_hp > 0
  \/ e.tile_props[Adr(e, r, c)].stone > 0
  \/ e.pids_2d[Adr(e, r, c)] # -1

\* ========== AGENT ACTIONS ==========
\* variant: any satiation above 0 suffices
_agent_can_reproduce_any(agent) ==
  agent.age >= REPRODUCTION_AGE /\ agent.satiation > 0

\* variant: half of MAX_SATIATION is enough to reproduce
_agent_can_reproduce_at_half(agent) ==
  agent.age >= REPRODUCTION_AGE /\ agent.satiation >= MAX_SATIATION \div 2

_agent_can_reproduce(agent) ==
  agent.age >= REPRODUCTION_AGE /\ agent.satiation > MAX_SATIATION \div 2

\* the eight neighbour offsets in the order of the two nested loops
Offsets8 ==
  << <<-1, -1>>, <<-1, 0>>, <<-1, 1>>, <<0, -1>>, <<0, 1>>,
     <<1, -1>>, <<1, 0>>, <<1, 1>> >>

NbrR(e, r, off) == (r + off[1] + e.cfg.height) % e.cfg.height
NbrC(e, c, off) == (c + off[2] + e.cfg.width) % e.cfg.width

\* the address of the first unblocked neighbour, or -1
find_empty_cell(r, c, e) ==
  LET free == { k \in 1..8 :
                  ~tile_is_blocked(e, NbrR(e, r, Offsets8[k]), NbrC(e, c, Offsets8[k])) }
  IN IF free = {} THEN -1
     ELSE LET k == MinOf(free)
          IN Adr(e, NbrR(e, r, Offsets8[k]), NbrC(e, c, Offsets8[k]))

\* the first neighbour whose action is REPRODUCE and who can reproduce, or -1
_find_mate(agent, e) ==
  LET pidAt(k) == e.pids_2d[Adr(e, NbrR(e, agent.r, Offsets8[k]),
                                   NbrC(e, agent.c, Offsets8[k]))]
      ok == { k \in 1..8 :
                /\ pidAt(k) # -1
                /\ e.actions[pidAt(k)] = REPRODUCE
                /\ _agent_can_reproduce(e.agents[pidAt(k)]) }
  IN IF ok = {} THEN -1 ELSE pidAt(MinOf(ok))

\* variant: the cap is applied one slot early
agent_reproduce_caps_early(pid, e, birth) ==
  IF ~_agent_can_reproduce(e.agents[pid])
     \/ e.am.alive_count >= e.cfg.max_agents - 1 THEN e
  ELSE
    LET \* the child is spawned: pids_2d[idx] = child_pid (idx = -1 lies
        \* outside the array), its genes and role are drawn, kinship updated
        born(mate_pid, idx, sp) ==
          kinship_matrix_update(
            [sp.e EXCEPT
               !.pids_2d = IF idx \in CellsOf(e) THEN [@ EXCEPT ![idx] = sp.pid]
                           ELSE @,
               !.fault = IF idx \in CellsOf(e) THEN @ ELSE @ \cup {"oob_pids_2d"},
               !.dnas[sp.pid] =
                  [ j \in GenesOf(e) |->
                      IF birth.picks[j] % 2 = 0 THEN e.dnas[pid][j]
                      ELSE e.dnas[mate_pid][j] ],
               !.agents[sp.pid].role = birth.role % e.cfg.n_roles],
            sp.pid)
        \* both parents pay and the child is placed at empty_adr
        mated(mate_pid, empty_adr) ==
          LET new_r == CDiv(empty_adr, e.cfg.width)
              new_c == CMod(empty_adr, e.cfg.width)
          IN born(mate_pid, new_r * e.cfg.width + new_c,
                  spawn_agent(
                    [e EXCEPT !.agents[pid].satiation = @ - MAX_SATIATION \div 2,
                              !.agents[mate_pid].satiation = @ - MAX_SATIATION \div 2],
                    new_r, new_c, birth.dir))
        with(mate_pid) ==
          IF mate_pid = -1 THEN e
          ELSE mated(mate_pid, find_empty_cell(e.agents[pid].r, e.agents[pid].c, e))
    IN with(_find_mate(e.agents[pid], e))

\* birth = [dir, picks, role]: the values of rand() a birth consumes
agent_reproduce(pid, e, birth) ==
  IF ~_agent_can_reproduce(e.agents[pid])
     \/ e.am.alive_count >= e.cfg.max_agents THEN e
  ELSE
    LET \* the child is spawned: pids_2d[idx] = child_pid (idx = -1 lies
        \* outside the array), its genes and role are drawn, kinship updated
        born(mate_pid, idx, sp) ==
          kinship_matrix_update(
            [sp.e EXCEPT
               !.pids_2d = IF idx \in CellsOf(e) THEN [@ EXCEPT ![idx] = sp.pid]
                           ELSE @,
               !.fault = IF idx \in CellsOf(e) THEN @ ELSE @ \cup {"oob_pids_2d"},
               !.dnas[sp.pid] =
                  [ j \in GenesOf(e) |->
                      IF birth.picks[j] % 2 = 0 THEN e.dnas[pid][j]
                      ELSE e.dnas[mate_pid][j] ],
               !.agents[sp.pid].role = birth.role % e.cfg.n_roles],
            sp.pid)
        \* both parents pay and the child is placed at empty_adr
        mated(mate_pid, empty_adr) ==
          LET new_r == CDiv(empty_adr, e.cfg.width)
              new_c == CMod(empty_adr, e.cfg.width)
          IN born(mate_pid, new_r * e.cfg.width + new_c,
                  spawn_agent(
                    [e EXCEPT !.agents[pid].satiation = @ - MAX_SATIATION \div 2,
                              !.agents[mate_pid].satiation = @ - MAX_SATIATION \div 2],
                    new_r, new_c, birth.dir))
        with(mate_pid) ==
          IF mate_pid = -1 THEN e
          ELSE mated(mate_pid, find_empty_cell(e.agents[pid].r, e.agents[pid].c, e))
    IN with(_find_mate(e.agents[pid], e))

agent_mine(pid, e) ==
  LET agent == e.agents[pid]
      rr(d) == (agent.r + DELTAS[d + 1][1] + e.cfg.height) % e.cfg.height
      cc(d) == (agent.c + DELTAS[d + 1][2] + e.cfg.width) % e.cfg.width
      hits == { d \in 0..3 : e.tile_props[Adr(e, rr(d), cc(d))].stone > 0 }
  IN IF agent.stone_carried >= MAX_STONE_CARRYING_CAPACITY \/ hits = {} THEN e
     ELSE LET d == MinOf(hits)
          IN [e EXCEPT !.agents[pid].dir = d,
                       !.tile_props[Adr(e, rr(d), cc(d))].stone = U16(@ - 1),
                       !.agents[pid].stone_carried = @ + 1]

\* variant: an attack that finds no target turns the attacker clockwise
agent_attack_turns_on_miss(pid, e) ==
  LET agent == e.agents[pid]
      dirOf(k) == (agent.dir + k) % 4
      rr(k) == (agent.r + ATTACK_SWORD[dirOf(k) + 1][1][1] + e.cfg.height) % e.cfg.height
      cc(k) == (agent.c + ATTACK_SWORD[dirOf(k) + 1][1][2] + e.cfg.width) % e.cfg.width
      hits == { k \in 0..3 :
                  \/ e.tile_props[Adr(e, rr(k), cc(k))].wall_hp > 0
                  \/ e.pids_2d[Adr(e, rr(k), cc(k))] # -1 }
  IN IF hits = {} THEN [e EXCEPT !.agents[pid].dir = (@ + 1) % 4]
     ELSE
       LET k == MinOf(hits)
           t == Adr(e, rr(k), cc(k))
           is_wall == e.tile_props[t].wall_hp > 0
           e1 == [e EXCEPT !.agents[pid].dir = dirOf(k)]
       IN IF is_wall
          THEN LET e2 == [e1 EXCEPT !.tile_props[t].wall_hp = U16(@ - 1)]
               IN IF e2.tile_props[t].wall_hp = 0
                  THEN destroy_wall(e2, rr(k), cc(k))
                  ELSE e2
          ELSE LET target_pid == e1.pids_2d[t]
                   e2 == [e1 EXCEPT !.agents[target_pid].hp = @ - 1]
                   target == e2.agents[target_pid]
                   me == e2.agents[pid]
               IN IF target.hp = 0
                  THEN [e2 EXCEPT
                          !.agents[pid].satiation =
                             Min(MAX_SATIATION, me.satiation + CDiv(target.satiation, 2)),
                          !.agents[pid].stone_carried =
                             Min(MAX_STONE_CARRYING_CAPACITY,
                                 me.stone_carried + target.stone_carried),
                          !.agents[pid].food_carried =
                             Min(MAX_FOOD_CARRYING_CAPACITY,
                                 me.food_carried + target.food_carried)]
                  ELSE e2

\* agent_attack with the loot taken from any target at hp <= 0
agent_attack_loots_dying(pid, e) ==
  LET agent == e.agents[pid]
      dirOf(k) == (agent.dir + k) % 4
      rr(k) == (agent.r + ATTACK_SWORD[dirOf(k) + 1][1][1] + e.cfg.height) % e.cfg.height
      cc(k) == (agent.c + ATTACK_SWORD[dirOf(k) + 1][1][2] + e.cfg.width) % e.cfg.width
      hits == { k \in 0..3 :
                  \/ e.tile_props[Adr(e, rr(k), cc(k))].wall_hp > 0
                  \/ e.pids_2d[Adr(e, rr(k), cc(k))] # -1 }
  IN IF hits = {} THEN e
     ELSE
       LET k == MinOf(hits)
           t == Adr(e, rr(k), cc(k))
           is_wall == e.tile_props[t].wall_hp > 0
           e1 == [e EXCEPT !.agents[pid].dir = dirOf(k)]
       IN IF is_wall
          THEN LET e2 == [e1 EXCEPT !.tile_props[t].wall_hp = U16(@ - 1)]
               IN IF e2.tile_props[t].wall_hp = 0
                  THEN destroy_wall(e2, rr(k), cc(k))
                  ELSE e2
          ELSE LET target_pid == e1.pids_2d[t]
                   e2 == [e1 EXCEPT !.agents[target_pid].hp = @ - 1]
                   target == e2.agents[target_pid]
                   me == e2.agents[pid]
               IN IF target.hp <= 0
                  THEN [e2 EXCEPT
                          !.agents[pid].satiation =
                             Min(MAX_SATIATION, me.satiation + CDiv(target.satiation, 2)),
                          !.agents[pid].stone_carried =
                             Min(MAX_STONE_CARRYING_CAPACITY,
                                 me.stone_carried + target.stone_carried),
                          !.agents[pid].food_carried =
                             Min(MAX_FOOD_CARRYING_CAPACITY,
                                 me.food_carried + target.food_carried)]
                  ELSE e2

\* The scan reads deltas[dir][0] only: the first cell of each direction's arc.
agent_attack(pid, e) ==
  LET agent == e.agents[pid]
      dirOf(k) == (agent.dir + k) % 4
      rr(k) == (agent.r + ATTACK_SWORD[dirOf(k) + 1][1][1] + e.cfg.height) % e.cfg.height
      cc(k) == (agent.c + ATTACK_SWORD[dirOf(k) + 1][1][2] + e.cfg.width) % e.cfg.width
      hits == { k \in 0..3 :
                  \/ e.tile_props[Adr(e, rr(k), cc(k))].wall_hp > 0
                  \/ e.pids_2d[Adr(e, rr(k), cc(k))] # -1 }
  IN IF hits = {} THEN e
     ELSE
       LET k == MinOf(hits)
           t == Adr(e, rr(k), cc(k))
           is_wall == e.tile_props[t].wall_hp > 0
           e1 == [e EXCEPT !.agents[pid].dir = dirOf(k)]
       IN IF is_wall
          THEN LET e2 == [e1 EXCEPT !.tile_props[t].wall_hp = U16(@ - 1)]
               IN IF e2.tile_props[t].wall_hp = 0
                  THEN destroy_wall(e2, rr(k), cc(k))
                  ELSE e2
          ELSE LET target_pid == e1.pids_2d[t]
                   e2 == [e1 EXCEPT !.agents[target_pid].hp = @ - 1]
                   target == e2.agents[target_pid]
                   me == e2.agents[pid]
               IN IF target.hp = 0
                  THEN [e2 EXCEPT
                          !.agents[pid].satiation =
                             Min(MAX_SATIATION, me.satiation + CDiv(target.satiation, 2)),
                          !.agents[pid].stone_carried =
                             Min(MAX_STONE_CARRYING_CAPACITY,
                                 me.stone_carried + target.stone_carried),
                          !.agents[pid].food_carried =
                             Min(MAX_FOOD_CARRYING_CAPACITY,
                                 me.food_carried + target.food_carried)]
                  ELSE e2

\* ========== REWARDS ==========
RECURSIVE SumKin(_, _, _)
\* sum of kinship_matrix[pid][alive_pids[j]] for j = 0 .. n-1
SumKin(e, pid, n) ==
  IF n <= 0 THEN 0
  ELSE e.kinship_matrix[pid][e.am.alive_pids[n - 1]] + SumKin(e, pid, n - 1)

\* variant: the slots terminated in the call are passed over
_delta_rewards_alive_only(e) ==
  LET rewarded == { p \in PidsOf(e) : e.am.alive_mask[p] }
      store(fs) ==
        [e EXCEPT !.family_sizes = fs,
                  !.rewards = [ p \in PidsOf(e) |->
                                  IF p \in rewarded THEN fs[p] - e.prev_family_sizes[p]
                                  ELSE e.rewards[p] ],
                  !.prev_family_sizes = fs]
  IN store([ p \in PidsOf(e) |->
               IF p \in rewarded THEN U16(SumKin(e, p, e.am.alive_count))
               ELSE e.family_sizes[p] ])

\* rewards[pid] is kept as its numerator; the C value is that over n_genes
_delta_rewards(e) ==
  LET rewarded == { p \in PidsOf(e) : e.am.alive_mask[p] \/ e.terminals[p] = 1 }
      store(fs) ==
        [e EXCEPT !.family_sizes = fs,
                  !.rewards = [ p \in PidsOf(e) |->
                                  IF p \in rewarded THEN fs[p] - e.prev_family_sizes[p]
                                  ELSE e.rewards[p] ],
                  !.prev_family_sizes = fs]
  IN store([ p \in PidsOf(e) |->
               IF p \in rewarded THEN U16(SumKin(e, p, e.am.alive_count))
               ELSE e.family_sizes[p] ])

\* A growth-rate reward is ext * extinction_reward, plus log(num / den) when
\* logged; 0.0f is LogZero.
LogZero == [ ext |-> 0, logged |-> FALSE, num |-> 1, den |-> 1 ]

\* 994-1021; the assertion at 1005 is recorded in fault
_growth_rate_rewards(e) ==
  LET rewarded == { p \in PidsOf(e) : e.am.alive_mask[p] \/ e.terminals[p] = 1 }
      store(fs) ==
        [e EXCEPT
           !.family_sizes = fs,
           !.rewards =
              [ p \in PidsOf(e) |->
                  IF p \notin rewarded THEN e.rewards[p]
                  ELSE IF fs[p] = 0
                  THEN IF e.prev_family_sizes[p] > 1
                       THEN [ ext |-> 1, logged |-> TRUE,
                              num |-> 1, den |-> e.prev_family_sizes[p] ]
                       ELSE [ ext |-> 1, logged |-> FALSE, num |-> 1, den |-> 1 ]
                  ELSE [ ext |-> 0, logged |-> TRUE,
                         num |-> fs[p], den |-> e.prev_family_sizes[p] ] ],
           !.prev_family_sizes = fs,
           !.fault = IF \E p \in rewarded : fs[p] = 0 /\ e.terminals[p] = 0
                     THEN @ \cup {"assert_growth_terminal"} ELSE @ ]
  IN store([ p \in PidsOf(e) |->
               IF p \in rewarded THEN U16(SumKin(e, p, e.am.alive_count))
               ELSE e.family_sizes[p] ])

compute_rewards(e) ==
  IF e.cfg.reward_growth_rate THEN _growth_rate_rewards(e) ELSE _delta_rewards(e)

\* ========== RESET ==========
RECURSIVE KillListed(_, _, _)
\* for (i = 0; i < n; i++) kill_agent(am, alive_pids[i])
KillListed(e, i, n) ==
  IF i >= n THEN e
  ELSE KillListed(kill_agent(e, e.am.alive_pids[i]), i + 1, n)

SpawnStones(e) ==
  LET R == e.cfg.height
      C == e.cfg.width
      anchors == { Adr(e, (R * (1 + 2 * ri)) \div 4, (C * (1 + 2 * ci)) \div 4) :
                     ri \in 0..1, ci \in 0..1 }
                 \cup { Adr(e, R \div 2, C \div 2) }
  IN [e EXCEPT !.tile_props =
        [ a \in CellsOf(e) |->
            IF a \in anchors THEN [e.tile_props[a] EXCEPT !.stone = STONE_PER_MINE]
            ELSE e.tile_props[a] ]]

\* One pass of the body of the seeding loop for pair i with the cell `adr`
\* drawn; ok is FALSE when the loop rejects the draw (continue).
SeedPair(e, i, adr, rnd) ==
  LET r == adr \div e.cfg.width
      c == adr % e.cfg.width
      n_adr == find_empty_cell(r, c, e)
  IN IF tile_is_blocked(e, r, c) \/ n_adr = -1 THEN [ ok |-> FALSE, e |-> e ]
     ELSE
       LET r_2 == n_adr \div e.cfg.width
           c_2 == n_adr % e.cfg.width
           dna == [ j \in GenesOf(e) |-> rnd.alleles[i][j] % e.cfg.n_alleles ]
           \* spawn_agent returned -1 and 1281-1289 use it as an index
           full(x) == [x EXCEPT !.fault = @ \cup {"oob_spawn_full"}]
           second(pid, s2) ==
             IF s2.pid = -1
             THEN full([s2.e EXCEPT !.pids_2d[Adr(e, r_2, c_2)] = -1])
             ELSE
             kinship_matrix_update(
               kinship_matrix_update(
                 [s2.e EXCEPT !.pids_2d[Adr(e, r_2, c_2)] = s2.pid,
                              !.dnas[pid] = dna, !.dnas[s2.pid] = dna,
                              !.agents[pid].role = 0, !.agents[s2.pid].role = 0],
                 pid),
               s2.pid)
           first(s1) ==
             IF s1.pid = -1 THEN full(s1.e)
             ELSE
             second(s1.pid,
                    spawn_agent([s1.e EXCEPT !.pids_2d[Adr(e, r, c)] = s1.pid],
                                r_2, c_2, rnd.dirs[2 * i + 1]))
       IN [ ok |-> TRUE, e |-> first(spawn_agent(e, r, c, rnd.dirs[2 * i])) ]

RECURSIVE SeedPairs(_, _, _)
SeedPairs(st, i, rnd) ==
  IF i >= 4 \/ ~st.ok THEN st
  ELSE SeedPairs(SeedPair(st.e, i, rnd.adrs[i], rnd), i + 1, rnd)

\* c_reset up to the seeding loop (1200-1241): buffers cleared, the agents
\* of the last episode killed, the terrain wiped, the stone deposits placed
c_reset_terrain(e, rnd) ==
  LET \* 1201-1210
      cleared ==
        [e EXCEPT
           !.truncations = [ p \in PidsOf(e) |-> 0 ],
           !.prev_family_sizes = [ p \in PidsOf(e) |-> 0 ],
           !.tick = 0,
           !.is_winter = FALSE,
           !.next_max_ep_length =
              e.cfg.min_ep_length
              + (rnd.budget % (e.cfg.max_ep_length - e.cfg.min_ep_length)),
           !.pids_2d = [ a \in CellsOf(e) |-> -1 ]]
      \* 1219-1220
      checked(k) ==
        [k EXCEPT !.fault = IF k.am.alive_count = 0 THEN @
                            ELSE @ \cup {"assert_reset_alive_count"}]
      \* 1212-1221
      cleaned(e1) ==
        IF e1.am.alive_count > 0
        THEN checked(update_alive_pids(KillListed(e1, 0, e1.am.alive_count)))
        ELSE e1
      \* 1222-1240
      terrain(e2) ==
        agent_manager_reset(kinship_matrix_reset(
          SpawnStones([e2 EXCEPT !.tile_props = [ a \in CellsOf(e) |-> ZeroTile ]])))
  IN terrain(cleaned(cleared))

\* the end of c_reset, after the seeding loop (1293-1297)
c_reset_finish(e) == compute_rewards(update_alive_pids(e))

\* rnd = [budget, adrs, dirs, alleles]: the values of rand() the reset uses;
\* adrs[i] is the draw the seeding loop of pair i accepts.  The result has
\* ok = FALSE when some adrs[i] is a draw the loop rejects.
c_reset(e, rnd) ==
  LET done(st) == [ ok |-> st.ok, e |-> c_reset_finish(st.e) ]
  IN done(SeedPairs([ ok |-> TRUE, e |-> c_reset_terrain(e, rnd) ], 0, rnd))

\* ========== STEP ==========
\* variant: a unit of the carried food is spilt at every meal
pre_action_spills(e, pid) ==
  LET a0 == e.agents[pid]
      grown == a0.age + 1 = REPRODUCTION_AGE
      a1 == [a0 EXCEPT !.age = @ + 1,
                       !.hp_max = IF grown THEN MAX_HP ELSE @,
                       !.hp = IF grown THEN MAX_HP ELSE @,
                       !.satiation = @ - METABOLISM_RATE]
      appetite == MAX_SATIATION - a1.satiation
      food_to_eat == Min(appetite, a1.food_carried)
  IN [e EXCEPT !.agents[pid] =
        IF a1.food_carried > 0
        THEN [a1 EXCEPT !.food_carried = Max(0, @ - food_to_eat - 1),
                        !.satiation = @ + food_to_eat]
        ELSE a1]

\* variant: a turn costs one unit of satiation less
pre_action_frugal(e, pid) ==
  LET a0 == e.agents[pid]
      grown == a0.age + 1 = REPRODUCTION_AGE
      a1 == [a0 EXCEPT !.age = @ + 1,
                       !.hp_max = IF grown THEN MAX_HP ELSE @,
                       !.hp = IF grown THEN MAX_HP ELSE @,
                       !.satiation = @ - (METABOLISM_RATE - 1)]
      appetite == MAX_SATIATION - a1.satiation
      food_to_eat == Min(appetite, a1.food_carried)
  IN [e EXCEPT !.agents[pid] =
        IF a1.food_carried > 0
        THEN [a1 EXCEPT !.food_carried = @ - food_to_eat,
                        !.satiation = @ + food_to_eat]
        ELSE a1]

\* ageing, metabolism and eating of the agent whose turn it is (c_step 1348-1363)
pre_action(e, pid) ==
  LET a0 == e.agents[pid]
      grown == a0.age + 1 = REPRODUCTION_AGE
      a1 == [a0 EXCEPT !.age = @ + 1,
                       !.hp_max = IF grown THEN MAX_HP ELSE @,
                       !.hp = IF grown THEN MAX_HP ELSE @,
                       !.satiation = @ - METABOLISM_RATE]
      appetite == MAX_SATIATION - a1.satiation
      food_to_eat == Min(appetite, a1.food_carried)
  IN [e EXCEPT !.agents[pid] =
        IF a1.food_carried > 0
        THEN [a1 EXCEPT !.food_carried = @ - food_to_eat,
                        !.satiation = @ + food_to_eat]
        ELSE a1]

\* variant: an agent at hp <= 0 does not block the move
agent_move_over_dying(e, pid, action) ==
  LET agent == e.agents[pid]
      R == e.cfg.height
      C == e.cfg.width
      new_r == (agent.r + DELTAS[action + 1][1] + R) % R
      new_c == (agent.c + DELTAS[action + 1][2] + C) % C
      held == e.pids_2d[Adr(e, new_r, new_c)]
      blocked == \/ e.tile_props[Adr(e, new_r, new_c)].wall_hp > 0
                 \/ e.tile_props[Adr(e, new_r, new_c)].stone > 0
                 \/ (held # -1 /\ e.agents[held].hp > 0)
      e1 == IF action = agent.dir /\ ~blocked
            THEN [e EXCEPT !.pids_2d[Adr(e, agent.r, agent.c)] = -1,
                           !.pids_2d[Adr(e, new_r, new_c)] = pid,
                           !.agents[pid].r = new_r,
                           !.agents[pid].c = new_c]
            ELSE e
  IN [e1 EXCEPT !.agents[pid].dir = action]

\* action in MOVE_UP..MOVE_LEFT (c_step 1366-1392)
agent_move(e, pid, action) ==
  LET agent == e.agents[pid]
      R == e.cfg.height
      C == e.cfg.width
      new_r == (agent.r + DELTAS[action + 1][1] + R) % R
      new_c == (agent.c + DELTAS[action + 1][2] + C) % C
      e1 == IF action = agent.dir /\ ~tile_is_blocked(e, new_r, new_c)
            THEN [e EXCEPT !.pids_2d[Adr(e, agent.r, agent.c)] = -1,
                           !.pids_2d[Adr(e, new_r, new_c)] = pid,
                           !.agents[pid].r = new_r,
                           !.agents[pid].c = new_c]
            ELSE e
  IN [e1 EXCEPT !.agents[pid].dir = action]

\* variant: a harvest of no food leaves the crop timer running
agent_pickup_keeps_timer(e, pid, day_number) ==
  LET agent == e.agents[pid]
      t == Adr(e, agent.r, agent.c)
      food_capacity == MAX_FOOD_CARRYING_CAPACITY - agent.food_carried
      stored_food == e.tile_props[t].stored_food
  IN IF stored_food > 0
     THEN LET food_to_pickup == Min(stored_food, food_capacity)
              e1 == [e EXCEPT !.tile_props[t].stored_food = U16(@ - food_to_pickup),
                              !.agents[pid].food_carried = @ + food_to_pickup]
          IN IF food_to_pickup = stored_food /\ ~e.is_winter /\ e.cfg.is_soil[t]
             THEN [e1 EXCEPT !.tile_props[t].last_harvest = day_number]
             ELSE e1
     ELSE LET growth_days == get_growth_days(e, agent.r, agent.c)
          IN IF growth_days > 0 /\ crop_available(growth_days) > 0
             THEN LET crop == crop_available(growth_days)
                      food_to_pickup == Min(crop, food_capacity)
                  IN [e EXCEPT
                        !.tile_props[t].last_harvest = day_number,
                        !.agents[pid].food_carried = @ + food_to_pickup,
                        !.tile_props[t].stored_food =
                           IF food_to_pickup < crop THEN U16(crop - food_to_pickup)
                           ELSE @]
             ELSE e

\* variant: the crop the agent cannot carry is lost
agent_pickup_drops_remainder(e, pid, day_number) ==
  LET agent == e.agents[pid]
      t == Adr(e, agent.r, agent.c)
      food_capacity == MAX_FOOD_CARRYING_CAPACITY - agent.food_carried
      stored_food == e.tile_props[t].stored_food
  IN IF stored_food > 0
     THEN LET food_to_pickup == Min(stored_food, food_capacity)
              e1 == [e EXCEPT !.tile_props[t].stored_food = U16(@ - food_to_pickup),
                              !.agents[pid].food_carried = @ + food_to_pickup]
          IN IF food_to_pickup = stored_food /\ ~e.is_winter /\ e.cfg.is_soil[t]
             THEN [e1 EXCEPT !.tile_props[t].last_harvest = day_number]
             ELSE e1
     ELSE LET growth_days == get_growth_days(e, agent.r, agent.c)
          IN IF growth_days > 0
             THEN LET crop == crop_available(growth_days)
                      food_to_pickup == Min(crop, food_capacity)
                  IN [e EXCEPT
                        !.tile_props[t].last_harvest = day_number,
                        !.agents[pid].food_carried = @ + food_to_pickup]
             ELSE e

\* action == PICKUP (c_step 1393-1418)
agent_pickup(e, pid, day_number) ==
  LET agent == e.agents[pid]
      t == Adr(e, agent.r, agent.c)
      food_capacity == MAX_FOOD_CARRYING_CAPACITY - agent.food_carried
      stored_food == e.tile_props[t].stored_food
  IN IF stored_food > 0
     THEN LET food_to_pickup == Min(stored_food, food_capacity)
              e1 == [e EXCEPT !.tile_props[t].stored_food = U16(@ - food_to_pickup),
                              !.agents[pid].food_carried = @ + food_to_pickup]
          IN IF food_to_pickup = stored_food /\ ~e.is_winter /\ e.cfg.is_soil[t]
             THEN [e1 EXCEPT !.tile_props[t].last_harvest = day_number]
             ELSE e1
     ELSE LET growth_days == get_growth_days(e, agent.r, agent.c)
          IN IF growth_days > 0
             THEN LET crop == crop_available(growth_days)
                      food_to_pickup == Min(crop, food_capacity)
                  IN [e EXCEPT
                        !.tile_props[t].last_harvest = day_number,
                        !.agents[pid].food_carried = @ + food_to_pickup,
                        !.tile_props[t].stored_food =
                           IF food_to_pickup < crop THEN U16(crop - food_to_pickup)
                           ELSE @]
             ELSE e

\* variant: all the food carried is dropped, whatever room the tile has
agent_package_drops_all(e, pid, day_number) ==
  LET agent == e.agents[pid]
      t == Adr(e, agent.r, agent.c)
      growth_days == get_growth_days(e, agent.r, agent.c)
      e1 == IF growth_days > 0
            THEN [e EXCEPT !.tile_props[t].last_harvest = day_number,
                           !.tile_props[t].stored_food =
                              U16(@ + crop_available(growth_days))]
            ELSE e
      tile_storage_capacity == MAX_FOOD_STORAGE_CAPACITY - e1.tile_props[t].stored_food
      food_to_drop == agent.food_carried
  IN IF agent.food_carried > 0
     THEN [e1 EXCEPT !.tile_props[t].stored_food = U16(@ + food_to_drop),
                     !.agents[pid].food_carried = @ - food_to_drop]
     ELSE e1

\* action == PACKAGE_FOOD (c_step 1422-1442)
agent_package(e, pid, day_number) ==
  LET agent == e.agents[pid]
      t == Adr(e, agent.r, agent.c)
      growth_days == get_growth_days(e, agent.r, agent.c)
      e1 == IF growth_days > 0
            THEN [e EXCEPT !.tile_props[t].last_harvest = day_number,
                           !.tile_props[t].stored_food =
                              U16(@ + crop_available(growth_days))]
            ELSE e
      tile_storage_capacity == MAX_FOOD_STORAGE_CAPACITY - e1.tile_props[t].stored_food
      food_to_drop == Min(agent.food_carried, tile_storage_capacity)
  IN IF agent.food_carried > 0
     THEN [e1 EXCEPT !.tile_props[t].stored_food = U16(@ + food_to_drop),
                     !.agents[pid].food_carried = @ - food_to_drop]
     ELSE e1

\* action == BUILD_WALL (c_step 1443-1456)
agent_build_wall(e, pid) ==
  LET agent == e.agents[pid]
      wall_r == (agent.r + DELTAS[agent.dir + 1][1] + e.cfg.height) % e.cfg.height
      wall_c == (agent.c + DELTAS[agent.dir + 1][2] + e.cfg.width) % e.cfg.width
  IN IF agent.stone_carried > 0 /\ ~tile_is_blocked(e, wall_r, wall_c)
     THEN [place_wall(e, wall_r, wall_c) EXCEPT !.agents[pid].stone_carried = @ - 1]
     ELSE e

\* variant: a code outside 0..10 is reduced modulo 11
agent_act_wraps(e, pid, day_number, birth) ==
  LET action == e.actions[pid] % 11
  IN CASE action >= MOVE_UP /\ action <= MOVE_LEFT -> agent_move(e, pid, action)
       [] action = PICKUP -> agent_pickup(e, pid, day_number)
       [] action = MINE -> agent_mine(pid, e)
       [] action = PACKAGE_FOOD -> agent_package(e, pid, day_number)
       [] action = BUILD_WALL -> agent_build_wall(e, pid)
       [] action = ATTACK -> agent_attack(pid, e)
       [] action = REPRODUCE -> agent_reproduce(pid, e, birth)
       [] OTHER -> e

\* the action of one agent (c_step 1365-1462); any other code does nothing
agent_act(e, pid, day_number, birth) ==
  LET action == e.actions[pid]
  IN CASE action >= MOVE_UP /\ action <= MOVE_LEFT -> agent_move(e, pid, action)
       [] action = PICKUP -> agent_pickup(e, pid, day_number)
       [] action = MINE -> agent_mine(pid, e)
       [] action = PACKAGE_FOOD -> agent_package(e, pid, day_number)
       [] action = BUILD_WALL -> agent_build_wall(e, pid)
       [] action = ATTACK -> agent_attack(pid, e)
       [] action = REPRODUCE -> agent_reproduce(pid, e, birth)
       [] OTHER -> e

\* variant: an agent at hp <= 0 still ages, starves and eats at its turn
agent_turn_ages_dying(e, pid, day_number, birth) ==
  IF e.agents[pid].hp <= 0 THEN pre_action(e, pid)
  ELSE agent_act(pre_action(e, pid), pid, day_number, birth)

\* one iteration of the loop "Agents act" (c_step 1344-1469)
agent_turn(e, pid, day_number, birth) ==
  IF e.agents[pid].hp <= 0 THEN e
  ELSE LET e0 == [e EXCEPT !.fault = IF e.agents[pid].satiation > 0 THEN @
                                     ELSE @ \cup {"assert_satiation"}]
       IN agent_act(pre_action(e0, pid), pid, day_number, birth)

RECURSIVE action_pass(_, _, _, _, _)
action_pass(e, i, n, day_number, birth) ==
  IF i >= n THEN e
  ELSE action_pass(agent_turn(e, e.am.alive_pids[i], day_number, birth),
                   i + 1, n, day_number, birth)

\* variant: hp is not looked at
must_die_hp_ignored(agent) == agent.satiation <= 0

\* the condition of the death sweep (c_step 1483)
must_die(agent) == agent.satiation <= 0 \/ agent.hp <= 0

\* variant: the cell of the victim is not cleared
sweep_one_keeps_cell(e, pid) ==
  IF must_die(e.agents[pid])
  THEN [kill_agent(e, pid) EXCEPT !.terminals[pid] = 1]
  ELSE e

\* one iteration of the death sweep (c_step 1481-1487)
sweep_one(e, pid) ==
  LET agent == e.agents[pid]
      idx == agent.r * e.cfg.width + agent.c
  IN IF must_die(agent)
     THEN LET k == kill_agent(e, pid)
          IN [k EXCEPT !.pids_2d = IF idx \in CellsOf(e)
                                   THEN [@ EXCEPT ![idx] = -1] ELSE @,
                       !.fault = IF idx \in CellsOf(e) THEN @
                                 ELSE @ \cup {"oob_pids_2d"},
                       !.terminals[pid] = 1]
     ELSE e

RECURSIVE death_sweep(_, _, _)
death_sweep(e, i, n) ==
  IF i >= n THEN e
  ELSE death_sweep(sweep_one(e, e.am.alive_pids[i]), i + 1, n)

\* variant: the call resets one tick later
episode_over_late(e) == e.am.alive_count = 0 \/ e.tick > e.next_max_ep_length

\* c_step 1311-1318: the call resets instead of ticking
episode_over(e) == e.am.alive_count = 0 \/ e.tick >= e.next_max_ep_length

\* variant: truncations is set one tick later
episode_truncated_late(e) == e.tick > e.next_max_ep_length

\* c_step 1492: the budget is reached, truncations is set
episode_truncated(e) == e.tick >= e.next_max_ep_length

\* c_step 1325-1331
update_season(e, day_number) ==
  IF ~e.is_winter /\ day_number >= SUMMER_DURATION
  THEN [e EXCEPT !.is_winter = TRUE]
  ELSE IF e.is_winter /\ day_number < SUMMER_DURATION
       THEN start_crop_growth([e EXCEPT !.is_winter = FALSE])
       ELSE e

\* c_step when it does not reset (1320-1496).  acts is the action buffer,
\* draws the values of rand() of the shuffle, birth those of a birth.
\* mid is the environment between the action pass and the death sweep.
c_step_tick(e, acts, draws, birth) ==
  LET day_number == day_number_of(e.tick)
      \* 1492-1495
      finish(e2, e3, e4) ==
        [ e |-> compute_rewards(
                  IF episode_truncated(e4)
                  THEN [e4 EXCEPT !.truncations = [ p \in PidsOf(e) |-> 1 ]]
                  ELSE e4),
          mid |-> e3, order |-> e2.am.alive_pids ]
      \* 1479-1490
      sweep(e2, e3) ==
        finish(e2, e3, update_alive_pids(death_sweep(e3, 0, e3.am.alive_count)))
      \* 1342-1471
      pass(e2) ==
        sweep(e2, update_alive_pids(
                    action_pass(e2, 0, e2.am.alive_count, day_number, birth)))
      \* 1339
      shuffled(e1) ==
        pass([e1 EXCEPT !.am.alive_pids = shuffle(@, e1.am.alive_count, draws)])
      \* 1311, 1322-1332
      begin(e0) == shuffled([update_season(e0, day_number) EXCEPT !.tick = @ + 1])
  IN begin([e EXCEPT !.terminals = [ p \in PidsOf(e) |-> 0 ], !.actions = acts])

\* c_step when it resets (1311-1317)
c_step_reset(e, acts, rnd) ==
  c_reset([e EXCEPT !.terminals = [ p \in PidsOf(e) |-> 0 ], !.actions = acts], rnd)

\* ========== THE HOST ==========
\* The state init() leaves: calloc'ed engine arrays and zeroed host buffers.
InitEnv(c) ==
  LET P == 0 .. (c.max_agents - 1)
      T == 0 .. (c.width * c.height - 1)
  IN [ cfg |-> c,
       agents |-> [ p \in P |-> ZeroAgent ],
       am |-> [ alive_mask |-> [ p \in P |-> FALSE ], alive_bitset |-> {},
                free_pids |-> [ i \in P |-> 0 ], alive_pids |-> [ i \in P |-> 0 ],
                free_count |-> 0, alive_count |-> 0, next_pid |-> 0 ],
       pids_2d |-> [ a \in T |-> 0 ],
       tile_props |-> [ a \in T |-> ZeroTile ],
       dnas |-> [ p \in P |-> [ g \in 0 .. (c.n_genes - 1) |-> 0 ] ],
       kinship_matrix |-> [ i \in P |-> [ j \in P |-> 0 ] ],
       family_sizes |-> [ p \in P |-> 0 ],
       prev_family_sizes |-> [ p \in P |-> 0 ],
       tick |-> 0, is_winter |-> FALSE, next_max_ep_length |-> 0,
       actions |-> [ p \in P |-> 0 ],
       rewards |-> [ p \in P |-> IF c.reward_growth_rate THEN LogZero ELSE 0 ],
       terminals |-> [ p \in P |-> 0 ],
       truncations |-> [ p \in P |-> 0 ],
       fault |-> {} ]

\* The variables take the value of the environment e; h describes the call.
Becomes(e, h) ==
  /\ cfg' = e.cfg
  /\ agents' = e.agents
  /\ am' = e.am
  /\ pids_2d' = e.pids_2d
  /\ tile_props' = e.tile_props
  /\ dnas' = e.dnas
  /\ kinship_matrix' = e.kinship_matrix
  /\ family_sizes' = e.family_sizes
  /\ prev_family_sizes' = e.prev_family_sizes
  /\ tick' = e.tick
  /\ is_winter' = e.is_winter
  /\ next_max_ep_length' = e.next_max_ep_length
  /\ actions' = e.actions
  /\ rewards' = e.rewards
  /\ terminals' = e.terminals
  /\ truncations' = e.truncations
  /\ fault' = e.fault
  /\ hist' = h

Starts(e, h) ==
  /\ cfg = e.cfg
  /\ agents = e.agents
  /\ am = e.am
  /\ pids_2d = e.pids_2d
  /\ tile_props = e.tile_props
  /\ dnas = e.dnas
  /\ kinship_matrix = e.kinship_matrix
  /\ family_sizes = e.family_sizes
  /\ prev_family_sizes = e.prev_family_sizes
  /\ tick = e.tick
  /\ is_winter = e.is_winter
  /\ next_max_ep_length = e.next_max_ep_length
  /\ actions = e.actions
  /\ rewards = e.rewards
  /\ terminals = e.terminals
  /\ truncations = e.truncations
  /\ fault = e.fault
  /\ hist = h

\* An out-of-bounds access has happened: what the process does next is not
\* defined, and no further call is modelled.
Halted == \E f \in fault : f \in {"oob_pids_2d", "oob_spawn_full"}

\* hist: via is the entry point of the last call ("none" before any call),
\* op what it did ("reset" or "tick"), pre the environment the call started
\* from, mid the environment between the action pass and the death sweep,
\* order the shuffled alive_pids, calls the number of calls made, codes the
\* action codes the host's policy may write for each slot, at the cell a
\* direct call of the wall functions was made for (-1 otherwise), ret the
\* value a direct call of spawn_agent returned (-1 otherwise).
HistInit(e, codes) ==
  [ via |-> "none", op |-> "none", pre |-> e, mid |-> e,
    order |-> e.am.alive_pids, calls |-> 0, codes |-> codes, at |-> -1, ret |-> -1 ]

HistReset(pre, via) ==
  [ via |-> via, op |-> "reset", pre |-> pre, mid |-> pre,
    order |-> pre.am.alive_pids, calls |-> hist.calls + 1, codes |-> hist.codes,
    at |-> -1, ret |-> -1 ]

HistStep(pre, out) ==
  [ via |-> "c_step", op |-> "tick", pre |-> pre, mid |-> out.mid,
    order |-> out.order, calls |-> hist.calls + 1, codes |-> hist.codes,
    at |-> -1, ret |-> -1 ]

\* place_wall and then destroy_wall were called for the cell adr; mid is the
\* environment between the two
HistWall(pre, mid, adr) ==
  [ via |-> "place_wall", op |-> "round_trip", pre |-> pre, mid |-> mid,
    order |-> pre.am.alive_pids, calls |-> hist.calls + 1, codes |-> hist.codes,
    at |-> adr, ret |-> -1 ]

\* spawn_agent was called on the engine and returned pid
HistSpawn(pre, pid) ==
  [ via |-> "spawn_agent", op |-> "spawn", pre |-> pre, mid |-> pre,
    order |-> pre.am.alive_pids, calls |-> hist.calls + 1, codes |-> hist.codes,
    at |-> -1, ret |-> pid ]

\* c_reset is inside its seeding loop: n pairs are seeded and the last draw
\* of a cell was adr (-1 before the first draw)
HistSeeding(n, adr) ==
  [ via |-> "c_reset", op |-> "seeding", pre |-> hist.pre, mid |-> hist.mid,
    order |-> hist.order, calls |-> hist.calls, codes |-> hist.codes,
    at |-> adr, ret |-> n ]

\* a reset returned out = [ok, e]; the draws of rnd were accepted if out.ok
Returns(out, via) == out.ok /\ Becomes(out.e, HistReset(Env, via))

\* a tick returned out = [e, mid, order]
Ticks(out) == Becomes(out.e, HistStep(Env, out))

\* A call of c_step: acts is the action buffer, draws / birth / rnd the values
\* of rand() for the shuffle, a birth and a reset.
StepWith(ActVecs, Draws, Births, Rnds, max_calls) ==
  /\ ~Halted
  /\ hist.calls < max_calls
  /\ \E acts \in ActVecs :
       IF episode_over(Env)
       THEN \E rnd \in Rnds : Returns(c_step_reset(Env, acts, rnd), "c_step")
       ELSE \E draws \in Draws :
              \E birth \in (IF \E p \in DOMAIN acts : acts[p] = REPRODUCE
                            THEN Births ELSE {CHOOSE b \in Births : TRUE}) :
                Ticks(c_step_tick(Env, acts, draws, birth))

\* A call of c_reset by the host.
ResetWith(Rnds, max_calls) ==
  /\ ~Halted
  /\ hist.calls < max_calls
  /\ \E rnd \in Rnds : Returns(c_reset(Env, rnd), "c_reset")

\* place_wall(r, c) followed by destroy_wall(r, c), called on the engine
\* between two steps
WallTrip(max_calls) ==
  /\ ~Halted
  /\ hist.calls < max_calls
  /\ \E a \in CellsOf(Env) :
       LET r == a \div cfg.width
           c == a % cfg.width
           built == place_wall(Env, r, c)
       IN Becomes(destroy_wall(built, r, c), HistWall(Env, built, a))

\* spawn_agent(am, r, c, n_genes) called on the engine between two steps,
\* for a cell of Targets and a value of rand() of Dirs
SpawnCall(Targets, Dirs, max_calls) ==
  /\ ~Halted
  /\ hist.calls < max_calls
  /\ \E a \in Targets : \E d \in Dirs :
       LET out == spawn_agent(Env, a \div cfg.width, a % cfg.width, d)
       IN Becomes(out.e, HistSpawn(Env, out.pid))

\* ========== Spec: episodes from init() ==========
MaxCalls == 8

\* 4x4 grid, soil on the even addresses; stones fall on 5, 7, 10, 13, 15
SoilEven(w, h) == [ a \in 0 .. (w * h - 1) |-> a % 2 = 0 ]

MainCfg(lo, hi) ==
  [ width |-> 4, height |-> 4, max_agents |-> 8, n_genes |-> 2, n_alleles |-> 2,
    n_roles |-> 2, min_ep_length |-> lo, max_ep_length |-> hi,
    is_soil |-> SoilEven(4, 4), reward_growth_rate |-> FALSE ]

MainCfgs == { MainCfg(5, 6), MainCfg(2, 4) }

\* values of rand() for a reset
MainRnds ==
  { [ budget |-> b, adrs |-> a, dirs |-> [ k \in 0..7 |-> k ],
      alleles |-> [ i \in 0..3 |-> [ j \in 0..1 |-> IF j = 0 THEN i ELSE i \div 2 ] ] ] :
      b \in 0..1,
      a \in { [ i \in 0..3 |-> <<0, 2, 4, 9>>[i + 1] ],
              [ i \in 0..3 |-> <<6, 0, 8, 3>>[i + 1] ] } }

\* every slot is given the same action code
UniformActs(codes) == { [ p \in PidsOf(Env) |-> a ] : a \in codes }

MainCodes == { NOOP, ATTACK, MOVE_RIGHT }

\* shuffles: rand() % (i+1) = i at every index (no swap), or 0 at every index
MainDraws == { [ i \in PidsOf(Env) |-> i ], [ i \in PidsOf(Env) |-> 0 ] }

MainBirths == { [ dir |-> 0, picks |-> [ j \in 0..1 |-> j ], role |-> 1 ] }

Init == \E c \in MainCfgs :
          Starts(InitEnv(c), HistInit(InitEnv(c), [ p \in 0..7 |-> MainCodes ]))

Step == StepWith(UniformActs(MainCodes), MainDraws, MainBirths, MainRnds, MaxCalls)

Reset == ResetWith(MainRnds, MaxCalls)

Next == Step \/ Reset

Spec == Init /\ [][Next]_vars

\* ========== SpecScene: calls from states in the middle of an episode ==========
\* The scenes are states of an episode on a 4x8 grid: the eight agents seeded
\* by a reset have walked, harvested, mined, built walls and fought for
\* sc.tick ticks, and those not in the scene have died.  A scene is built
\* from the state of a real reset with the engine's own operators
\* (kill_agent, place_wall, update_alive_pids, compute_rewards).
SceneCfg ==
  [ width |-> 8, height |-> 4, max_agents |-> 8, n_genes |-> 2, n_alleles |-> 2,
    n_roles |-> 2, min_ep_length |-> 30, max_ep_length |-> 32,
    is_soil |-> SoilEven(8, 4), reward_growth_rate |-> FALSE ]

\* the reset the episode began with: pairs seeded at 0, 3, 5, 15 with the
\* alleles <<0,0>>, <<1,1>>, <<1,0>>, <<0,1>>; the budget is 30 + b
SceneRnd(b) ==
  [ budget |-> b, adrs |-> [ i \in 0..3 |-> <<0, 3, 5, 15>>[i + 1] ],
    dirs |-> [ k \in 0..7 |-> k ],
    alleles |-> [ i \in 0..3 |-> [ j \in 0..1 |->
                    << <<0, 0>>, <<1, 1>>, <<1, 0>>, <<0, 1>> >>[i + 1][j + 1] ] ] ]

SceneBase == c_reset(InitEnv(SceneCfg), SceneRnd(0)).e

RECURSIVE KillSet(_, _)
\* the slots of S die, in ascending order
KillSet(e, S) ==
  IF S = {} THEN e ELSE KillSet(kill_agent(e, MinOf(S)), S \ {MinOf(S)})

RECURSIVE PlaceWalls(_, _)
\* walls = a set of <<adr, wall_hp>>: built there, then hit down to wall_hp
PlaceWalls(e, walls) ==
  IF walls = {} THEN e
  ELSE LET w == CHOOSE x \in walls : TRUE
           e1 == place_wall(e, w[1] \div e.cfg.width, w[1] % e.cfg.width)
       IN PlaceWalls([e1 EXCEPT !.tile_props[w[1]].wall_hp = w[2]], walls \ {w})

\* sc = [tick, ag, walls, food]: ag[p] = [r, c, dir, hp, satiation, food,
\* stone] for the agents still alive, walls as above, food a set of
\* <<adr, stored_food, last_harvest>>.  The stone carried and built was
\* mined from the centre deposit; it is winter after a step taken on day 100 or later.
SceneEnvOn(b, sc) ==
  LET alive == DOMAIN sc.ag
      centre == Adr(b, b.cfg.height \div 2, b.cfg.width \div 2)
      mined == SumOver([ p \in alive |-> sc.ag[p].stone ], alive)
               + Cardinality(sc.walls)
      placed(e1) ==
            [e1 EXCEPT
               !.agents = [ p \in PidsOf(b) |->
                  IF p \in alive
                  THEN [ r |-> sc.ag[p].r, c |-> sc.ag[p].c, dir |-> sc.ag[p].dir,
                         hp |-> sc.ag[p].hp, hp_max |-> MAX_HP,
                         satiation |-> sc.ag[p].satiation,
                         max_satiation |-> MAX_SATIATION, age |-> sc.tick,
                         food_carried |-> sc.ag[p].food,
                         stone_carried |-> sc.ag[p].stone, role |-> 0 ]
                  ELSE [b.agents[p] EXCEPT !.hp = 0] ],
               !.pids_2d = [ a \in CellsOf(b) |->
                  IF \E p \in alive : Adr(b, sc.ag[p].r, sc.ag[p].c) = a
                  THEN CHOOSE p \in alive : Adr(b, sc.ag[p].r, sc.ag[p].c) = a
                  ELSE -1 ],
               !.tick = sc.tick,
               !.is_winter = (sc.tick > 0
                              /\ day_number_of(sc.tick - 1) >= SUMMER_DURATION),
               !.truncations = [ p \in PidsOf(b) |->
                  IF sc.tick >= b.next_max_ep_length THEN 1 ELSE 0 ],
               !.tile_props[centre].stone = STONE_PER_MINE - mined]
      stored(e3) ==
            [e3 EXCEPT !.tile_props =
               [ a \in CellsOf(b) |->
                   IF \E f \in sc.food : f[1] = a
                   THEN LET f == CHOOSE x \in sc.food : x[1] = a
                        IN [e3.tile_props[a] EXCEPT !.stored_food = f[2],
                                                    !.last_harvest = f[3]]
                   ELSE e3.tile_props[a] ]]
  IN compute_rewards(update_alive_pids(
       stored(PlaceWalls(placed(KillSet(b, PidsOf(b) \ alive)), sc.walls))))

SceneEnv(sc) == SceneEnvOn(SceneBase, sc)

Ag(r, c, dir, hp, sat, food, stone) ==
  [ r |-> r, c |-> c, dir |-> dir, hp |-> hp, satiation |-> sat, food |-> food,
    stone |-> stone ]

AllCodes == { MOVE_UP, MOVE_RIGHT, MOVE_DOWN, MOVE_LEFT, NOOP, PICKUP, MINE,
              PACKAGE_FOOD, BUILD_WALL, ATTACK, REPRODUCE, 11 }

\* the policy of a scene: any code for the slots of `free`, NOOP for the rest
Policy(free) == [ p \in 0..7 |-> IF p \in free THEN AllCodes ELSE {NOOP} ]

\* Grid (S = stone at 10, 14, 20, 26, 30):   0  1  2  3  4  5  6  7
\*                                           8  9  S 11 12 13  S 15
\*                                          16 17 18 19  S 21 22 23
\*                                          24 25  S 27 28 29  S 31
\* Soil on the even addresses.  Slots 0 and 1 are twins, as are 2 and 3.
Scenes ==
  { \* two adults side by side, a starving third far away
    [ tick |-> 19, codes |-> Policy({0, 1, 2}),
      ag |-> (0 :> Ag(1, 0, 1, 3, 80, 0, 0) @@ 2 :> Ag(1, 1, 3, 3, 80, 0, 0)
              @@ 1 :> Ag(1, 5, 0, 3, 5, 0, 0)),
      walls |-> {}, food |-> {} ],
    \* slot 0 walled in at 19 (stones 10, 20, 26; walls 11, 12, 27, 28), its
    \* mate at 18
    [ tick |-> 19, codes |-> Policy({0, 2}),
      ag |-> (0 :> Ag(2, 3, 0, 3, 80, 0, 0) @@ 2 :> Ag(2, 2, 1, 3, 80, 0, 0)),
      walls |-> { <<11, 8>>, <<12, 8>>, <<27, 1>>, <<28, 8>> }, food |-> {} ],
    \* a fight: slot 0 at 9 faces up, its diagonal 0 holds slot 2 at hp 1
    \* with loot; slot 1 stands below on stored food and faces the full
    \* store at 16; slot 3 starves far away
    [ tick |-> 19, codes |-> Policy({0, 1, 2}),
      ag |-> (0 :> Ag(1, 1, 0, 3, 60, 0, 1) @@ 2 :> Ag(0, 0, 2, 1, 40, 10, 2)
              @@ 1 :> Ag(2, 1, 3, 2, 100, 150, 10)
              @@ 3 :> Ag(1, 5, 0, 3, 5, 0, 0)),
      walls |-> { <<8, 1>> }, food |-> { <<17, 20, 0>>, <<16, 150, 60>> } ],
    \* a builder on soil harvested on day 70, facing the centre deposit and
    \* carrying stone and food; a hungry twin next to it
    [ tick |-> 19, codes |-> Policy({0, 1}),
      ag |-> (0 :> Ag(3, 4, 0, 3, 70, 5, 2) @@ 1 :> Ag(3, 3, 1, 1, 5, 0, 0)),
      walls |-> { <<29, 8>> }, food |-> { <<28, 0, 70>> } ],
    \* the population at capacity: two adults of different pairs at 0 and 8,
    \* the other six three columns away
    [ tick |-> 19, codes |-> Policy({0, 2}),
      ag |-> (0 :> Ag(0, 0, 2, 3, 80, 0, 0) @@ 2 :> Ag(1, 0, 0, 3, 80, 0, 0)
              @@ 1 :> Ag(0, 3, 0, 3, 60, 0, 0) @@ 3 :> Ag(0, 4, 0, 3, 60, 0, 0)
              @@ 4 :> Ag(0, 5, 0, 3, 60, 0, 0) @@ 5 :> Ag(1, 3, 0, 3, 60, 0, 0)
              @@ 6 :> Ag(1, 5, 0, 3, 60, 0, 0) @@ 7 :> Ag(2, 5, 0, 3, 60, 0, 0)),
      walls |-> {}, food |-> {} ],
    \* one below capacity: the same two adults, fed and carrying food, and
    \* five others three columns away
    [ tick |-> 19, codes |-> Policy({0, 2}),
      ag |-> (0 :> Ag(0, 0, 2, 3, 100, 60, 0) @@ 2 :> Ag(1, 0, 0, 3, 100, 60, 0)
              @@ 1 :> Ag(0, 3, 0, 3, 60, 0, 0) @@ 3 :> Ag(0, 4, 0, 3, 60, 0, 0)
              @@ 4 :> Ag(0, 5, 0, 3, 60, 0, 0) @@ 5 :> Ag(1, 3, 0, 3, 60, 0, 0)
              @@ 6 :> Ag(1, 5, 0, 3, 60, 0, 0)),
      walls |-> {}, food |-> {} ],
    \* two sentries far apart: slot 0 at 0 faces right, the wall at 1 straight
    \* ahead and nothing else around it; slot 1 at 12 faces up with an empty
    \* arc ahead and a cracked wall at 19, down to its left
    [ tick |-> 19, codes |-> Policy({0, 1}),
      ag |-> (0 :> Ag(0, 0, 1, 3, 80, 0, 0) @@ 1 :> Ag(1, 4, 0, 3, 80, 0, 0)),
      walls |-> { <<1, 8>>, <<19, 1>> }, food |-> {} ],
    \* the budget of 30 is exhausted and truncations is set: the call resets
    [ tick |-> 30, codes |-> Policy({0, 1}),
      ag |-> (0 :> Ag(1, 0, 1, 3, 80, 0, 0) @@ 1 :> Ag(1, 1, 3, 3, 80, 0, 0)),
      walls |-> {}, food |-> {} ] }

MaxSceneCalls == 2

RECURSIVE Choices(_, _)
\* the functions f on S with f[p] \in codes[p]
Choices(S, codes) ==
  IF S = {} THEN { << >> }
  ELSE LET p == MinOf(S)
       IN { (p :> a) @@ f : a \in codes[p], f \in Choices(S \ {p}, codes) }

\* the buffers the policy may write before the first call (the entry of a
\* dead slot stays NOOP); before a later call the host leaves the buffer as
\* the previous call read it
PolicyActs ==
  LET alive == { p \in PidsOf(Env) : am.alive_mask[p] }
  IN IF hist.calls = 0
     THEN { [ p \in PidsOf(Env) |-> IF p \in alive THEN f[p] ELSE NOOP ] :
              f \in Choices(alive, hist.codes) }
     ELSE { actions }

\* every outcome of the shuffle's draws at the indices 1 and 2 (all orders
\* of up to three alive agents); rand() % (i+1) = 0 at the higher indices
SceneDraws ==
  { [ i \in PidsOf(Env) |-> IF i \in 1..2 THEN f[i] ELSE 0 ] :
      f \in { g \in [ 1..2 -> 0..2 ] : g[1] <= 1 } }

SceneBirths ==
  { [ dir |-> 2, picks |-> k, role |-> 1 ] : k \in [ 0..1 -> 0..1 ] }

InitScene ==
  \E sc \in Scenes : Starts(SceneEnv(sc), HistInit(SceneEnv(sc), sc.codes))

StepScene ==
  StepWith(PolicyActs, SceneDraws, SceneBirths, { SceneRnd(1) }, MaxSceneCalls)

NextScene == StepScene

SpecScene == InitScene /\ [][NextScene]_vars

\* ========== SpecWall: steps and direct wall calls across the seasons ==========
\* A longer episode (budget 60) on the same 4x8 grid: a builder with stone
\* and food at 28 facing the centre deposit, its twin at 27, walls at 29 and
\* 8 and stored food at 16, seen at tick 19 (day 74, summer), at tick 45 (day
\* 100: the next step begins the winter), at tick 50 (day 105, winter), at
\* tick 55 (day 0: the next step begins the summer) and at tick 60 (the
\* budget is used up: the next step resets).  The soil tile 4 was last
\* harvested on day 12 (on day 3 at tick 60, in the new summer).
WallCfg ==
  [ width |-> 8, height |-> 4, max_agents |-> 8, n_genes |-> 2, n_alleles |-> 2,
    n_roles |-> 2, min_ep_length |-> 60, max_ep_length |-> 62,
    is_soil |-> SoilEven(8, 4), reward_growth_rate |-> FALSE ]

WallBase == c_reset(InitEnv(WallCfg), SceneRnd(0)).e

WallScenes ==
  { [ tick |-> t, codes |-> Policy({0}),
      ag |-> (0 :> Ag(3, 4, 0, 3, 70, 5, 2) @@ 1 :> Ag(3, 3, 1, 3, 40, 30, 0)),
      walls |-> { <<29, 8>>, <<8, 1>> },
      food |-> { <<16, 40, 0>>, <<4, 0, IF t = 60 THEN 3 ELSE 12>> } ] :
      t \in { 19, 45, 50, 55, 60 } }

MaxWallCalls == 2

InitWall ==
  \E sc \in WallScenes :
    Starts(SceneEnvOn(WallBase, sc), HistInit(SceneEnvOn(WallBase, sc), sc.codes))

StepWall ==
  StepWith(PolicyActs, SceneDraws, SceneBirths, { SceneRnd(1) }, MaxWallCalls)

TripWall == WallTrip(MaxWallCalls)

NextWall == StepWall \/ TripWall

SpecWall == InitWall /\ [][NextWall]_vars

\* ========== SpecReset: resets after an episode that used a ninth slot ==========
\* The same grid with room for nine agents.  The eight seeded agents are all
\* alive at tick 19: slot 0 at 0 and slot 2 at 8 are fed adults facing each
\* other, so a child is born into slot 8, which no reset ever seeds.  A second
\* scene is the builder's at tick 30, where the budget is used up; in a third
\* five agents stand apart and the first step shuffles them in every one of
\* the 120 orders.  The host steps and resets in any order.
ResetCfg == [SceneCfg EXCEPT !.max_agents = 9]

ResetBase == c_reset(InitEnv(ResetCfg), SceneRnd(0)).e

\* the draws of the scenes' reset, with either budget, and draws that seed
\* the pairs at 1, 6, 16, 22 with other directions and alleles
ResetRnds ==
  { SceneRnd(0), SceneRnd(1),
    [ budget |-> 1, adrs |-> [ i \in 0..3 |-> <<1, 6, 16, 22>>[i + 1] ],
      dirs |-> [ k \in 0..7 |-> (k + 1) % 4 ],
      alleles |-> [ i \in 0..3 |-> [ j \in 0..1 |-> (i + j) % 2 ] ] ] }

ResetScenes ==
  { [ tick |-> 19,
      codes |-> [ p \in 0..8 |-> IF p = 0 THEN { REPRODUCE, NOOP, MOVE_RIGHT, PICKUP }
                                 ELSE IF p = 2 THEN { REPRODUCE, NOOP }
                                 ELSE { NOOP } ],
      ag |-> (0 :> Ag(0, 0, 2, 3, 100, 60, 0) @@ 2 :> Ag(1, 0, 0, 3, 100, 60, 0)
              @@ 1 :> Ag(0, 3, 0, 3, 60, 0, 0) @@ 3 :> Ag(0, 4, 0, 3, 60, 0, 0)
              @@ 4 :> Ag(0, 5, 0, 3, 60, 0, 0) @@ 5 :> Ag(1, 3, 0, 3, 60, 0, 0)
              @@ 6 :> Ag(1, 5, 0, 3, 60, 0, 0) @@ 7 :> Ag(1, 7, 0, 3, 60, 0, 0)),
      walls |-> {}, food |-> {} ],
    [ tick |-> 30,
      codes |-> [ p \in 0..8 |-> IF p = 0 THEN { BUILD_WALL, NOOP } ELSE { NOOP } ],
      ag |-> (0 :> Ag(3, 4, 0, 3, 70, 5, 2) @@ 1 :> Ag(3, 3, 1, 3, 40, 30, 0)),
      walls |-> { <<29, 8>> }, food |-> { <<16, 40, 0>> } ],
    [ tick |-> 19, codes |-> [ p \in 0..8 |-> { NOOP } ],
      ag |-> (0 :> Ag(0, 0, 1, 3, 80, 0, 0) @@ 2 :> Ag(0, 3, 0, 3, 80, 0, 0)
              @@ 4 :> Ag(0, 6, 0, 3, 80, 0, 0) @@ 5 :> Ag(3, 1, 0, 3, 80, 0, 0)
              @@ 7 :> Ag(3, 5, 0, 3, 80, 0, 0)),
      walls |-> {}, food |-> {} ] }

MaxResetCalls == 3

\* the values of rand() % (i + 1) in the shuffle: every outcome at every
\* index for the first step of at most five agents, those of SceneDraws
\* otherwise
ShuffleDraws ==
  IF hist.calls = 0 /\ am.alive_count <= 5
  THEN { [ i \in PidsOf(Env) |-> IF i \in 1..4 THEN f[i] ELSE 0 ] :
           f \in { g \in [ 1..4 -> 0..4 ] : \A i \in 1..4 : g[i] <= i } }
  ELSE SceneDraws

InitReset ==
  \E sc \in ResetScenes :
    Starts(SceneEnvOn(ResetBase, sc), HistInit(SceneEnvOn(ResetBase, sc), sc.codes))

StepReset ==
  StepWith(PolicyActs, ShuffleDraws, SceneBirths, ResetRnds, MaxResetCalls)

HostReset == ResetWith(ResetRnds, MaxResetCalls)

NextReset == StepReset \/ HostReset

SpecReset == InitReset /\ [][NextReset]_vars

\* ========== SpecForage: one agent, the same action at every tick ==========
\* A long episode (budget 130) on the same grid.  At tick 55 the winter ends
\* (day 0): slot 0, the only agent left, stands on the soil tile 0 with
\* satiation 100 and no food; the tile is empty.  The policy writes one code
\* for it before the first call and leaves the buffer alone afterwards, for
\* up to 72 calls.
ForageCfg == [SceneCfg EXCEPT !.min_ep_length = 130, !.max_ep_length = 132]

ForageBase == c_reset(InitEnv(ForageCfg), SceneRnd(0)).e

ForageScenes ==
  { [ tick |-> 55, codes |-> Policy({0}),
      ag |-> (0 :> Ag(0, 0, 0, 3, 100, 0, 0)),
      walls |-> {}, food |-> {} ] }

MaxForageCalls == 72

InitForage ==
  \E sc \in ForageScenes :
    Starts(SceneEnvOn(ForageBase, sc), HistInit(SceneEnvOn(ForageBase, sc), sc.codes))

StepForage ==
  StepWith(PolicyActs, SceneDraws, SceneBirths, { SceneRnd(0) }, MaxForageCalls)

NextForage == StepForage

SpecForage == InitForage /\ [][NextForage]_vars

\* ========== SpecGrowth: growth-rate rewards with 0, 1 and 2 genes ==========
\* The same grid with reward_growth_rate set and n_genes 0, 1 or 2.  The host
\* starts from init() or from a scene at tick 19: the twins 0 and 1 stand
\* side by side, fed adults; slot 2, of another family with two genes, is
\* about to starve alone; the twins 4 and 5 are about to starve together.
GrowthCfg(g) == [SceneCfg EXCEPT !.n_genes = g, !.reward_growth_rate = TRUE]

GrowthGenes == 0..2

GrowthBase(g) == c_reset(InitEnv(GrowthCfg(g)), SceneRnd(0)).e

GrowthScenes ==
  { [ tick |-> 19,
      codes |-> [ p \in 0..7 |-> IF p = 0 THEN { NOOP, ATTACK, REPRODUCE }
                                 ELSE IF p = 1 THEN { NOOP, REPRODUCE }
                                 ELSE { NOOP } ],
      ag |-> (0 :> Ag(0, 0, 1, 3, 100, 0, 0) @@ 1 :> Ag(0, 1, 3, 3, 100, 0, 0)
              @@ 2 :> Ag(2, 5, 0, 3, 5, 0, 0)
              @@ 4 :> Ag(3, 0, 0, 3, 5, 0, 0) @@ 5 :> Ag(3, 1, 0, 3, 5, 0, 0)),
      walls |-> {}, food |-> {} ] }

MaxGrowthCalls == 3

InitGrowth ==
  \E g \in GrowthGenes :
    \/ Starts(InitEnv(GrowthCfg(g)),
              HistInit(InitEnv(GrowthCfg(g)), [ p \in 0..7 |-> { NOOP } ]))
    \/ \E sc \in GrowthScenes :
         Starts(SceneEnvOn(GrowthBase(g), sc),
                HistInit(SceneEnvOn(GrowthBase(g), sc), sc.codes))

StepGrowth ==
  StepWith(PolicyActs, SceneDraws, SceneBirths, { SceneRnd(0) }, MaxGrowthCalls)

ResetGrowth == ResetWith({ SceneRnd(0), SceneRnd(1) }, MaxGrowthCalls)

NextGrowth == StepGrowth \/ ResetGrowth

SpecGrowth == InitGrowth /\ [][NextGrowth]_vars

\* ========== SpecCodes: action codes outside 0..10 ==========
\* The policy writes codes below 0 and above 10 next to valid ones.  Slot 0
\* at (1,0) faces right and carries food; its neighbour, slot 2 at (1,1),
\* faces it, hurt and on ripe soil; slot 1 starves far away.
CodeScenes ==
  { [ tick |-> 19,
      codes |-> [ p \in 0..7 |->
                    IF p = 0 THEN { -1, 11, NOOP, REPRODUCE, MOVE_RIGHT }
                    ELSE IF p = 2 THEN { -7, 11, 2147483647, REPRODUCE, ATTACK, PICKUP }
                    ELSE IF p = 1 THEN { 11, NOOP }
                    ELSE { NOOP } ],
      ag |-> (0 :> Ag(1, 0, 1, 1, 80, 10, 1) @@ 2 :> Ag(1, 1, 3, 3, 80, 0, 0)
              @@ 1 :> Ag(1, 5, 0, 3, 5, 0, 0)),
      walls |-> {}, food |-> {} ] }

MaxCodeCalls == 2

InitCodes ==
  \E sc \in CodeScenes : Starts(SceneEnv(sc), HistInit(SceneEnv(sc), sc.codes))

StepCodes ==
  StepWith(PolicyActs, SceneDraws, SceneBirths, { SceneRnd(1) }, MaxCodeCalls)

NextCodes == StepCodes

SpecCodes == InitCodes /\ [][NextCodes]_vars

\* ========== SpecSeed: resets with 6, 7 and 8 slots ==========
\* init() accepts every max_agents > 0; the reset seeds four pairs.
SeedCfg(n) == [SceneCfg EXCEPT !.max_agents = n]

SeedSlots == { 6, 7, 8 }

\* the draws of SceneRnd, and pairs seeded at 9, 12, 22 and 31
SeedRnds ==
  { SceneRnd(0), SceneRnd(1),
    [SceneRnd(1) EXCEPT !.adrs = [ i \in 0..3 |-> <<9, 12, 22, 31>>[i + 1] ]] }

MaxSeedCalls == 3

InitSeed ==
  \E n \in SeedSlots :
    Starts(InitEnv(SeedCfg(n)),
           HistInit(InitEnv(SeedCfg(n)), [ p \in 0 .. (n - 1) |-> { NOOP } ]))

StepSeed ==
  StepWith(UniformActs({ NOOP, MOVE_UP, MOVE_RIGHT }), MainDraws, MainBirths,
           SeedRnds, MaxSeedCalls)

ResetSeed == ResetWith(SeedRnds, MaxSeedCalls)

NextSeed == StepSeed \/ ResetSeed

SpecSeed == InitSeed /\ [][NextSeed]_vars

\* ========== SpecSpawn: spawn_agent called on the engine ==========
\* Grids of 8 and of 9 slots.  In the first scene the fed adults 0 and 2
\* stand side by side and the slots 1 and 3 are about to starve (the slots
\* 4 and up were killed in ascending order); in the second all eight seeded
\* agents are alive.  Between the steps the host calls spawn_agent for the
\* cell 31.
SpawnSlots == { 8, 9 }

SpawnBase(n) == c_reset(InitEnv(SeedCfg(n)), SceneRnd(0)).e

SpawnScenes ==
  { [ tick |-> 19,
      codes |-> [ p \in 0..8 |-> IF p = 0 THEN { REPRODUCE, NOOP }
                                 ELSE IF p = 2 THEN { REPRODUCE }
                                 ELSE { NOOP } ],
      ag |-> (0 :> Ag(0, 0, 2, 3, 100, 60, 0) @@ 2 :> Ag(1, 0, 0, 3, 100, 60, 0)
              @@ 1 :> Ag(1, 5, 0, 3, 5, 0, 0) @@ 3 :> Ag(3, 5, 0, 3, 5, 0, 0)),
      walls |-> {}, food |-> {} ],
    [ tick |-> 19, codes |-> [ p \in 0..8 |-> { NOOP } ],
      ag |-> (0 :> Ag(0, 0, 2, 3, 80, 0, 0) @@ 2 :> Ag(1, 0, 0, 3, 80, 0, 0)
              @@ 1 :> Ag(0, 3, 0, 3, 60, 0, 0) @@ 3 :> Ag(0, 4, 0, 3, 60, 0, 0)
              @@ 4 :> Ag(0, 5, 0, 3, 60, 0, 0) @@ 5 :> Ag(1, 3, 0, 3, 60, 0, 0)
              @@ 6 :> Ag(1, 5, 0, 3, 60, 0, 0) @@ 7 :> Ag(2, 5, 0, 3, 5, 0, 0)),
      walls |-> {}, food |-> {} ] }

MaxSpawnCalls == 4

InitSpawn ==
  \E n \in SpawnSlots : \E sc \in SpawnScenes :
    Starts(SceneEnvOn(SpawnBase(n), sc),
           HistInit(SceneEnvOn(SpawnBase(n), sc), sc.codes))

StepSpawn ==
  StepWith(PolicyActs, SceneDraws, SceneBirths, { SceneRnd(1) }, MaxSpawnCalls)

HostSpawn == SpawnCall({ 31 }, { 0, 5 }, MaxSpawnCalls)

NextSpawn == StepSpawn \/ HostSpawn

SpecSpawn == InitSpawn /\ [][NextSpawn]_vars

\* ========== SpecSeason: the steps around the turn of the seasons ==========
\* The episode of budget 60 seen at tick 43 (day 98, summer) and at tick 53
\* (day 108, winter): slot 0 stands on the soil tile 0, slot 1 on the soil
\* tile 12 harvested on day 90; the tile 4 stores food.
SeasonScenes ==
  { [ tick |-> t, codes |-> Policy({0, 1}),
      ag |-> (0 :> Ag(0, 0, 1, 3, 90, 0, 0) @@ 1 :> Ag(1, 4, 0, 3, 90, 20, 0)),
      walls |-> { <<29, 8>> },
      food |-> { <<4, 40, 0>>, <<12, 0, IF t = 43 THEN 90 ELSE 0>> } ] :
      t \in { 43, 53 } }

MaxSeasonCalls == 3

InitSeason ==
  \E sc \in SeasonScenes :
    Starts(SceneEnvOn(WallBase, sc), HistInit(SceneEnvOn(WallBase, sc), sc.codes))

StepSeason ==
  StepWith(PolicyActs, SceneDraws, SceneBirths, { SceneRnd(1) }, MaxSeasonCalls)

NextSeason == StepSeason

SpecSeason == InitSeason /\ [][NextSeason]_vars

\* ========== SpecMove: moves into free, blocked and contested cells ==========
\* First scene: slot 0 at 9 faces up, its target the hurt slot 2 at 0, which
\* faces the upper edge; slot 1 at 7 faces the right edge, beyond which
\* slot 2 stands.  Second scene: the couple 0 and 2 at 18 and 19 (a child of
\* slot 2, whose turn comes first, goes to 11), slot 1 at 12 facing 11,
\* slot 3 at 28 facing the wall at 29, below the centre deposit.
MoveScenes ==
  { [ tick |-> 19,
      codes |-> [ p \in 0..7 |->
                    IF p = 0 THEN { ATTACK, NOOP }
                    ELSE IF p = 2 THEN { MOVE_UP, MOVE_LEFT, NOOP }
                    ELSE IF p = 1 THEN { MOVE_UP, MOVE_RIGHT, MOVE_DOWN, MOVE_LEFT }
                    ELSE { NOOP } ],
      ag |-> (0 :> Ag(1, 1, 0, 3, 60, 0, 0) @@ 2 :> Ag(0, 0, 0, 1, 40, 10, 0)
              @@ 1 :> Ag(0, 7, 1, 3, 80, 0, 0)),
      walls |-> {}, food |-> {} ],
    [ tick |-> 19,
      codes |-> [ p \in 0..7 |->
                    IF p = 0 THEN { REPRODUCE, MOVE_RIGHT, MOVE_UP }
                    ELSE IF p = 2 THEN { REPRODUCE }
                    ELSE IF p = 1 THEN { MOVE_LEFT, NOOP }
                    ELSE IF p = 3 THEN { MOVE_RIGHT, MOVE_UP }
                    ELSE { NOOP } ],
      ag |-> (0 :> Ag(2, 2, 1, 3, 100, 0, 0) @@ 2 :> Ag(2, 3, 3, 3, 100, 0, 0)
              @@ 1 :> Ag(1, 4, 3, 3, 80, 0, 0) @@ 3 :> Ag(3, 4, 1, 3, 80, 0, 0)),
      walls |-> { <<29, 8>> }, food |-> {} ] }

MaxMoveCalls == 2

InitMove ==
  \E sc \in MoveScenes : Starts(SceneEnv(sc), HistInit(SceneEnv(sc), sc.codes))

StepMove ==
  StepWith(PolicyActs, SceneDraws, SceneBirths, { SceneRnd(1) }, MaxMoveCalls)

NextMove == StepMove

SpecMove == InitMove /\ [][NextMove]_vars

\* ========== SpecMate: a partner hit earlier in the pass ==========
\* Slot 1 at 9 faces up, its target the fed adult slot 2 at 0, which is down
\* to hp 1; the fed adult slot 0 stands at 1, next to slot 2 and above
\* slot 1.
MateScenes ==
  { [ tick |-> 19,
      codes |-> [ p \in 0..7 |->
                    IF p = 0 THEN { REPRODUCE, NOOP, PICKUP }
                    ELSE IF p = 2 THEN { REPRODUCE, NOOP }
                    ELSE IF p = 1 THEN { ATTACK, NOOP, MOVE_UP }
                    ELSE { NOOP } ],
      ag |-> (0 :> Ag(0, 1, 2, 3, 100, 0, 0) @@ 2 :> Ag(0, 0, 1, 1, 100, 10, 0)
              @@ 1 :> Ag(1, 1, 0, 3, 60, 0, 0)),
      walls |-> {}, food |-> {} ] }

MaxMateCalls == 2

InitMate ==
  \E sc \in MateScenes : Starts(SceneEnv(sc), HistInit(SceneEnv(sc), sc.codes))

StepMate ==
  StepWith(PolicyActs, SceneDraws, SceneBirths, { SceneRnd(1) }, MaxMateCalls)

NextMate == StepMate

SpecMate == InitMate /\ [][NextMate]_vars

\* ========== SpecLoot: two attackers on one victim ==========
\* The victim slot 2 stands at 0 with satiation 40, 10 food and 2 stones, at
\* hp 1 in the first scene and at hp 2 in the second; slot 0 at 9 faces up
\* and slot 1 at 15 faces right: the first cell of either arc is cell 0.
LootScenes ==
  { [ tick |-> 19,
      codes |-> [ p \in 0..7 |->
                    IF p \in {0, 1} THEN { ATTACK, NOOP }
                    ELSE IF p = 2 THEN { NOOP, MOVE_UP, ATTACK }
                    ELSE { NOOP } ],
      ag |-> (0 :> Ag(1, 1, 0, 3, 60, 0, 0) @@ 2 :> Ag(0, 0, 0, h, 40, 10, 2)
              @@ 1 :> Ag(1, 7, 1, 3, 60, 3, 1)),
      walls |-> {}, food |-> {} ] : h \in 1..2 }

MaxLootCalls == 2

InitLoot ==
  \E sc \in LootScenes : Starts(SceneEnv(sc), HistInit(SceneEnv(sc), sc.codes))

StepLoot ==
  StepWith(PolicyActs, SceneDraws, SceneBirths, { SceneRnd(1) }, MaxLootCalls)

NextLoot == StepLoot

SpecLoot == InitLoot /\ [][NextLoot]_vars

\* ========== SpecPickup: Pickup on stored food and on crop ==========
\* The episode of budget 60 seen at tick 19 (day 74), at tick 44 (day 99, the
\* last summer step) and at tick 50 (day 105, winter).  Slot 0 carries 100
\* food on the empty soil tile 0, never harvested; slot 1 carries nothing on
\* the soil tile 2, which stores 20 and was harvested on day 30; slot 2
\* carries 140 on the soil tile 4, which stores 150; slot 3 carries nothing
\* on tile 5, not soil, which stores 10.
PickupScenes ==
  { [ tick |-> t,
      codes |-> [ p \in 0..7 |-> IF p \in 0..3 THEN { PICKUP, NOOP } ELSE { NOOP } ],
      ag |-> (0 :> Ag(0, 0, 0, 3, 100, 100, 0) @@ 1 :> Ag(0, 2, 0, 3, 90, 0, 0)
              @@ 2 :> Ag(0, 4, 0, 3, 100, 140, 0) @@ 3 :> Ag(0, 5, 0, 3, 90, 0, 0)),
      walls |-> {},
      food |-> { <<2, 20, 30>>, <<4, 150, 0>>, <<5, 10, 7>> } ] :
      t \in { 19, 44, 50 } }

MaxPickupCalls == 2

InitPickup ==
  \E sc \in PickupScenes :
    Starts(SceneEnvOn(WallBase, sc), HistInit(SceneEnvOn(WallBase, sc), sc.codes))

StepPickup ==
  StepWith(PolicyActs, SceneDraws, SceneBirths, { SceneRnd(1) }, MaxPickupCalls)

NextPickup == StepPickup

SpecPickup == InitPickup /\ [][NextPickup]_vars

\* ========== SpecSuitors: one partner between two suitors ==========
\* The fed adults slot 0 at cell 0 and slot 1 at cell 2 are not neighbours;
\* between them, at cell 1, stands the adult slot 2 with satiation 51, 56 or
\* 100, which writes Reproduce.
SuitorScenes ==
  { [ tick |-> 19,
      codes |-> [ p \in 0..7 |-> IF p \in {0, 1} THEN { REPRODUCE, NOOP }
                                 ELSE IF p = 2 THEN { REPRODUCE }
                                 ELSE { NOOP } ],
      ag |-> (0 :> Ag(0, 0, 1, 3, 100, 0, 0) @@ 2 :> Ag(0, 1, 0, 3, m, 0, 0)
              @@ 1 :> Ag(0, 2, 3, 3, 100, 0, 0)),
      walls |-> {}, food |-> {} ] : m \in { 51, 56, 100 } }

MaxSuitorCalls == 2

InitSuitors ==
  \E sc \in SuitorScenes : Starts(SceneEnv(sc), HistInit(SceneEnv(sc), sc.codes))

StepSuitors ==
  StepWith(PolicyActs, SceneDraws, SceneBirths, { SceneRnd(1) }, MaxSuitorCalls)

NextSuitors == StepSuitors

SpecSuitors == InitSuitors /\ [][NextSuitors]_vars

\* ========== SpecStarve: an episode without food ==========
\* The 4x8 grid with a budget of 40 or 41 ticks.  The host starts from
\* init() and calls c_step with the same code for every slot: Noop, a move
\* or Reproduce, none of which yields food.  c_step is called again whenever
\* it returns, up to the bound on the calls.
StarveCfg == [SceneCfg EXCEPT !.min_ep_length = 40, !.max_ep_length = 42]

MaxStarveCalls == 23

InitStarve ==
  Starts(InitEnv(StarveCfg), HistInit(InitEnv(StarveCfg), [ p \in 0..7 |-> { NOOP } ]))

StepStarve ==
  StepWith(UniformActs({ NOOP, MOVE_RIGHT, REPRODUCE }), MainDraws, MainBirths,
           { SceneRnd(0), SceneRnd(1) }, MaxStarveCalls)

NextStarve == StepStarve

\* the guard of StepStarve: every call changes hist.calls, so the step is
\* enabled exactly when the guard holds
StarveEnabled == ~Halted /\ hist.calls < MaxStarveCalls

\* the host keeps calling: weak fairness of the step, WF_vars(StepStarve),
\* written with the guard in place of ENABLED
SpecStarve == InitStarve /\ [][NextStarve]_vars /\ []<>(~StarveEnabled)

\* ========== SpecSeeding: the seeding loop of c_reset, draw by draw ==========
\* Grids of 1 to 4 rows and columns with room for eight agents.  c_reset is
\* followed statement by statement: the part before the loop, then one
\* iteration of `while (true)` per step with any cell as the value of
\* rand() % (width * height), then the part after the loop once four pairs
\* are seeded.
MaxSeedingSide == 4

SeedingSizes == 1..MaxSeedingSide

SeedingCfg(w, h) ==
  [SceneCfg EXCEPT !.width = w, !.height = h, !.is_soil = SoilEven(w, h)]

\* c_reset, 1200-1241
BeginSeeding ==
  /\ hist.op = "none"
  /\ Becomes(c_reset_terrain(Env, SceneRnd(0)), HistSeeding(0, -1))

\* one iteration of the loop at 1265-1292: the draw is rejected (continue)
\* or a pair is seeded (break)
DrawCell ==
  /\ hist.op = "seeding"
  /\ hist.ret < 4
  /\ \E adr \in CellsOf(Env) :
       LET out == SeedPair(Env, hist.ret, adr, SceneRnd(0))
       IN IF out.ok
          THEN Becomes(out.e, HistSeeding(hist.ret + 1, adr))
          ELSE Becomes(Env, HistSeeding(hist.ret, adr))

\* c_reset, 1293-1297 (the observations of 1298 are not modelled)
EndSeeding ==
  /\ hist.op = "seeding"
  /\ hist.ret = 4
  /\ Becomes(c_reset_finish(Env), HistReset(hist.pre, "c_reset"))

InitSeeding ==
  \E w \in SeedingSizes : \E h \in SeedingSizes :
    Starts(InitEnv(SeedingCfg(w, h)),
           HistInit(InitEnv(SeedingCfg(w, h)), [ p \in 0..7 |-> { NOOP } ]))

NextSeeding == BeginSeeding \/ DrawCell \/ EndSeeding

SpecSeeding == InitSeeding /\ [][NextSeeding]_vars

\* ========== PROPERTIES ==========
Pids == PidsOf(Env)
Cells == CellsOf(Env)
AlivePids == { p \in Pids : am.alive_mask[p] }
Ticked == hist.op = "tick"
WasReset == hist.op = "reset"
\* the slots born in the last call
Born == { p \in AlivePids : Ticked /\ ~hist.pre.am.alive_mask[p] }
\* the slots the death sweep of the last call had to kill
Victims ==
  { p \in Pids : /\ hist.mid.am.alive_mask[p]
                 /\ (hist.mid.agents[p].satiation <= 0 \/ hist.mid.agents[p].hp <= 0) }
InGrid(r, c) == r \in 0 .. (cfg.height - 1) /\ c \in 0 .. (cfg.width - 1)

\* C1: after a reset and after every step, every alive slot has
\* 0 < hp <= hp_max and 0 < satiation <= max_satiation.
C1_VitalsInRange ==
  \A p \in AlivePids :
    /\ 0 < agents[p].hp /\ agents[p].hp <= agents[p].hp_max
    /\ 0 < agents[p].satiation /\ agents[p].satiation <= agents[p].max_satiation

\* a step in which the sweep killed a slot, a child was born and survives
C1_Witness ==
  /\ Ticked
  /\ \E p \in Pids : terminals[p] = 1
  /\ Born # {}

\* C2: the spatial index and the agent table agree in both directions.
C2_IndexAgrees ==
  /\ \A a \in Cells :
       pids_2d[a] # -1 =>
         /\ pids_2d[a] \in AlivePids
         /\ agents[pids_2d[a]].r * cfg.width + agents[pids_2d[a]].c = a
         /\ InGrid(agents[pids_2d[a]].r, agents[pids_2d[a]].c)
  /\ \A p \in AlivePids :
       /\ InGrid(agents[p].r, agents[p].c)
       /\ pids_2d[agents[p].r * cfg.width + agents[p].c] = p

\* C3: every alive agent stands inside the grid, children included, and
\* every write of pids_2d addresses a cell of the grid.
C3_Containment ==
  /\ \A p \in AlivePids : InGrid(agents[p].r, agents[p].c)
  /\ "oob_pids_2d" \notin fault

\* C4: popcount(alive_bitset) = alive_count = the number of slots with the
\* alive mask set; after each refresh alive_pids[0..alive_count) lists the
\* members of the bitset, once each; the assertion of update_alive_pids holds
\* (at reset, after the action pass and after the death sweep).
Consistent(m) ==
  /\ Cardinality(m.alive_bitset) = m.alive_count
  /\ m.alive_bitset = { p \in DOMAIN m.alive_mask : m.alive_mask[p] }
  /\ { m.alive_pids[i] : i \in 0 .. (m.alive_count - 1) } = m.alive_bitset
  /\ \A i, j \in 0 .. (m.alive_count - 1) : i # j => m.alive_pids[i] # m.alive_pids[j]

C4_AliveCounts ==
  /\ Consistent(am)
  /\ Consistent(hist.mid.am)
  /\ "assert_update_alive_pids" \notin fault
  /\ "assert_reset_alive_count" \notin fault

\* a step with a birth and a death: both refreshes changed the list
C4_Witness ==
  /\ Ticked
  /\ Born # {}
  /\ \E p \in Pids : terminals[p] = 1 /\ hist.pre.am.alive_mask[p]

\* C5: the kinship matrix is symmetric with diagonal n_genes, for all slots.
C5_KinshipSymmetric ==
  \A i, j \in Pids :
    /\ kinship_matrix[i][j] = kinship_matrix[j][i]
    /\ kinship_matrix[i][i] = cfg.n_genes

\* a child was born into a slot that had been freed, next to a dead slot
\* with which its genes disagree with the stale matrix entry
C5_Witness ==
  /\ Ticked
  /\ \E p \in Born : \E i \in 0 .. (hist.pre.am.free_count - 1) :
       hist.pre.am.free_pids[i] = p
  /\ \E p \in Born : \E q \in AlivePids :
       kinship_matrix[p][q] # hist.pre.kinship_matrix[p][q]

\* C6: a tile with a wall has no stored food, no stone and no agent; a tile
\* with stone has no agent.
C6_BlockedTiles ==
  \A a \in Cells :
    /\ tile_props[a].wall_hp > 0 =>
         tile_props[a].stored_food = 0 /\ tile_props[a].stone = 0 /\ pids_2d[a] = -1
    /\ tile_props[a].stone > 0 => pids_2d[a] = -1

\* a wall was built in the last step on a tile that held stored food
C6_Witness ==
  /\ Ticked
  /\ \E a \in Cells : /\ tile_props[a].wall_hp = WALL_HP_MAX
                      /\ hist.pre.tile_props[a].wall_hp = 0
                      /\ hist.pre.tile_props[a].stored_food > 0

\* C7: after a step, terminals is 1 exactly on the slots that were alive after
\* the action pass with satiation <= 0 or hp <= 0; they are dead in mask and
\* bitset, alive_count fell by one for each, their cell of pids_2d is -1; and
\* a slot that began the step with satiation <= 5 and no food, and whose
\* satiation never rose (no loot), is among them.
C7_DeathSweep ==
  Ticked =>
    /\ \A p \in Pids : terminals[p] = (IF p \in Victims THEN 1 ELSE 0)
    /\ \A p \in Victims :
         /\ ~am.alive_mask[p]
         /\ p \notin am.alive_bitset
         /\ InGrid(agents[p].r, agents[p].c)
         /\ pids_2d[agents[p].r * cfg.width + agents[p].c] = -1
    /\ am.alive_count = hist.mid.am.alive_count - Cardinality(Victims)
    /\ \A p \in Pids :
         ( /\ hist.pre.am.alive_mask[p]
           /\ hist.pre.agents[p].satiation <= METABOLISM_RATE
           /\ hist.pre.agents[p].food_carried = 0
           /\ hist.mid.agents[p].satiation <= hist.pre.agents[p].satiation )
         => terminals[p] = 1 /\ ~am.alive_mask[p]

\* a step in which one slot starved and another was killed by an attack
C7_Witness ==
  /\ Ticked
  /\ \E p \in Victims : hist.mid.agents[p].satiation <= 0 /\ hist.mid.agents[p].hp > 0
                         /\ hist.pre.agents[p].satiation <= METABOLISM_RATE
  /\ \E p \in Victims : hist.mid.agents[p].hp <= 0

\* C8: with min_ep_length = 5 and max_ep_length = 6 every episode driven by
\* step calls lasts exactly 5 ticks: the budget is 5, some agent is always
\* alive, a step call resets exactly when the tick is 5 (or nothing was ever
\* reset); truncations is all 1 exactly after the step that brings the tick
\* to 5 and all 0 after every other call, and the call after it resets.
C8_EpisodeBudget ==
  (cfg.min_ep_length = 5 /\ cfg.max_ep_length = 6 /\ hist.via # "none") =>
    /\ next_max_ep_length = 5
    /\ tick <= 5
    /\ am.alive_count > 0
    /\ hist.via = "c_step" =>
         (WasReset <=> (hist.pre.tick = 5 \/ hist.pre.next_max_ep_length = 0))
    /\ \A p \in Pids : truncations[p] = (IF Ticked /\ tick = 5 THEN 1 ELSE 0)
    /\ (hist.via = "c_step" /\ \E p \in Pids : hist.pre.truncations[p] = 1) =>
         WasReset /\ tick = 0

\* the seventh call: a reset, five ticks and the step call that resets
C8_Witness ==
  /\ cfg.min_ep_length = 5 /\ cfg.max_ep_length = 6
  /\ hist.calls = 7
  /\ hist.via = "c_step" /\ WasReset
  /\ hist.pre.tick = 5
  /\ \A p \in Pids : hist.pre.truncations[p] = 1

\* C9: a step call resets (tick 0, a fresh population, nobody aged or acted,
\* terminals all 0) iff at call time alive_count = 0 or tick >= the budget;
\* otherwise tick grows by exactly 1.  The tick never exceeds the budget and
\* the budget lies in [min_ep_length, max_ep_length), so an episode is reset
\* after at most max_ep_length step calls.
C9_StepResets ==
  /\ hist.via = "c_step" =>
       /\ WasReset <=> ( \/ hist.pre.am.alive_count = 0
                         \/ hist.pre.tick >= hist.pre.next_max_ep_length )
       /\ WasReset =>
            /\ tick = 0
            /\ \A p \in Pids : terminals[p] = 0
            /\ AlivePids # {}
            /\ \A p \in AlivePids : /\ agents[p].age = 0
                                    /\ agents[p].satiation = MAX_SATIATION
                                    /\ agents[p].food_carried = 0
       /\ Ticked => tick = hist.pre.tick + 1
  /\ hist.via # "none" =>
       /\ tick <= next_max_ep_length
       /\ cfg.min_ep_length <= next_max_ep_length
       /\ next_max_ep_length < cfg.max_ep_length
       /\ tick < cfg.max_ep_length

\* a step call reset an episode that had run to a budget of 3 (2 + 1 % 2)
\* with agents alive
C9_Witness ==
  /\ hist.via = "c_step" /\ WasReset
  /\ hist.pre.am.alive_count > 0
  /\ hist.pre.next_max_ep_length = 3
  /\ hist.pre.tick = 3

\* ---- C10 ----
Abs(x) == IF x < 0 THEN -x ELSE x
\* toroidal Chebyshev distance of two agent records
Cheb(x, y) ==
  Max(Min(Abs(x.r - y.r), cfg.height - Abs(x.r - y.r)),
      Min(Abs(x.c - y.c), cfg.width - Abs(x.c - y.c)))
\* the index of slot p in the order the action pass visited
PosIn(p) == CHOOSE i \in 0 .. (hist.pre.am.alive_count - 1) : hist.order[i] = p
\* the cells around record x that were unblocked before the call
FreeAround(x) ==
  { a \in Cells :
      /\ Cheb(x, [ r |-> a \div cfg.width, c |-> a % cfg.width ]) = 1
      /\ hist.pre.tile_props[a].wall_hp = 0
      /\ hist.pre.tile_props[a].stone = 0
      /\ hist.pre.pids_2d[a] = -1 }
\* a and b are the two parents of the scenario, a processed first
Parents(a, b) ==
  LET P == hist.pre
  IN /\ Ticked
     /\ a # b /\ P.am.alive_mask[a] /\ P.am.alive_mask[b]
     /\ Cheb(P.agents[a], P.agents[b]) = 1
     /\ \A p \in {a, b} : /\ P.agents[p].age >= REPRODUCTION_AGE
                          /\ P.agents[p].satiation = 80
                          /\ P.agents[p].food_carried = 0
                          /\ P.agents[p].hp > 0
                          /\ actions[p] = REPRODUCE
     /\ \A q \in Pids \ {a, b} :
          P.am.alive_mask[q] =>
            Cheb(P.agents[q], P.agents[a]) > 2 /\ Cheb(P.agents[q], P.agents[b]) > 2
     /\ PosIn(a) < PosIn(b)
     /\ FreeAround(P.agents[a]) # {}
\* what the scenario promises
OneChild(a, b) ==
  /\ Cardinality(Born) = 1
  /\ \A p \in {a, b} :
       /\ am.alive_mask[p]
       /\ agents[p].satiation = 80 - METABOLISM_RATE - MAX_SATIATION \div 2
  /\ \A k \in Born :
       /\ InGrid(agents[k].r, agents[k].c)
       /\ agents[k].r * cfg.width + agents[k].c \in FreeAround(hist.pre.agents[a])
       /\ pids_2d[agents[k].r * cfg.width + agents[k].c] = k
       /\ \A g \in GenesOf(Env) : dnas[k][g] \in { dnas[a][g], dnas[b][g] }

\* C10 (as amended): two Moore-adjacent adults with satiation 80 and no food
\* both choose Reproduce, no other agent is within two cells of them, the
\* parent processed first has a free Moore-neighbour cell and the population
\* is below max_agents: exactly one new slot is alive, each parent is at
\* 80 - 5 - 50, the child stands on a previously unblocked Moore-neighbour
\* of the acting parent and each of its genes is that gene of a parent.
C10_ReproduceBelowCapacity ==
  \A a, b \in Pids :
    (Parents(a, b) /\ hist.pre.am.alive_count < cfg.max_agents) => OneChild(a, b)

\* the scenario happened, with parents whose genes differ and a child that
\* took a gene from each
C10_Witness ==
  \E a, b \in Pids :
    /\ Parents(a, b) /\ hist.pre.am.alive_count < cfg.max_agents
    /\ \E k \in Born : dnas[k] # dnas[a] /\ dnas[k] # dnas[b]

\* C10 as stated: the same without the condition on the population.
C10_ReproduceAsStated ==
  \A a, b \in Pids : Parents(a, b) => OneChild(a, b)

\* ---- C11 ----
\* the satiation of record x after metabolism and the meal of its own turn
Fed(x) ==
  LET s == x.satiation - METABOLISM_RATE
  IN IF x.food_carried > 0 THEN s + Min(MAX_SATIATION - s, x.food_carried) ELSE s
\* a is processed before b, both choose Reproduce and are eligible when a
\* acts, a has a free neighbour and nobody else is within two cells
Couple(a, b) ==
  LET P == hist.pre
  IN /\ Ticked
     /\ a # b /\ P.am.alive_mask[a] /\ P.am.alive_mask[b]
     /\ Cheb(P.agents[a], P.agents[b]) = 1
     /\ actions[a] = REPRODUCE /\ actions[b] = REPRODUCE
     /\ P.agents[a].age >= REPRODUCTION_AGE /\ P.agents[b].age >= REPRODUCTION_AGE
     /\ Fed(P.agents[a]) > MAX_SATIATION \div 2
     /\ P.agents[b].satiation > MAX_SATIATION \div 2
     /\ \A q \in Pids \ {a, b} :
          P.am.alive_mask[q] =>
            Cheb(P.agents[q], P.agents[a]) > 2 /\ Cheb(P.agents[q], P.agents[b]) > 2
     /\ PosIn(a) < PosIn(b)
     /\ FreeAround(P.agents[a]) # {}

\* C11: alive_count never exceeds max_agents; an eligible Reproduce at
\* alive_count = max_agents - 1 spawns one child and brings alive_count to
\* max_agents; in a step that starts at max_agents no slot is born, no gene
\* and no kinship entry changes, an agent choosing Reproduce ends its turn
\* where and as a Noop would leave it, and pids_2d is untouched when every
\* action is Reproduce or Noop.
C11_CapacitySaturation ==
  /\ am.alive_count <= cfg.max_agents
  /\ hist.mid.am.alive_count <= cfg.max_agents
  /\ \A a, b \in Pids :
       (Couple(a, b) /\ hist.pre.am.alive_count = cfg.max_agents - 1) =>
          /\ hist.mid.am.alive_count = cfg.max_agents
          /\ Cardinality({ k \in Pids : hist.mid.am.alive_mask[k]
                                        /\ ~hist.pre.am.alive_mask[k] }) = 1
  /\ (Ticked /\ hist.pre.am.alive_count = cfg.max_agents) =>
       /\ hist.mid.am.alive_mask = hist.pre.am.alive_mask
       /\ hist.mid.am.alive_count = cfg.max_agents
       /\ hist.mid.dnas = hist.pre.dnas
       /\ hist.mid.kinship_matrix = hist.pre.kinship_matrix
       /\ \A p \in Pids :
            (hist.pre.am.alive_mask[p] /\ actions[p] = REPRODUCE
               /\ hist.mid.agents[p].hp > 0) =>
              /\ hist.mid.agents[p].satiation = Fed(hist.pre.agents[p])
              /\ hist.mid.agents[p].r = hist.pre.agents[p].r
              /\ hist.mid.agents[p].c = hist.pre.agents[p].c
              /\ hist.mid.agents[p].dir = hist.pre.agents[p].dir
       /\ (\A p \in Pids : hist.pre.am.alive_mask[p] => actions[p] \in {NOOP, REPRODUCE})
            => hist.mid.pids_2d = hist.pre.pids_2d

\* an eligible couple tried at capacity, one tick after the birth (the slot
\* of age 0) that had filled the last free slot
C11_Witness ==
  /\ Ticked
  /\ hist.pre.am.alive_count = cfg.max_agents
  /\ \E a, b \in Pids :
       /\ a # b /\ hist.pre.am.alive_mask[a] /\ hist.pre.am.alive_mask[b]
       /\ Cheb(hist.pre.agents[a], hist.pre.agents[b]) = 1
       /\ actions[a] = REPRODUCE /\ actions[b] = REPRODUCE
       /\ hist.pre.agents[a].age >= REPRODUCTION_AGE
       /\ hist.pre.agents[b].age >= REPRODUCTION_AGE
       /\ Fed(hist.pre.agents[a]) > MAX_SATIATION \div 2
       /\ hist.pre.agents[b].satiation > MAX_SATIATION \div 2
       /\ PosIn(a) < PosIn(b)
       /\ FreeAround(hist.pre.agents[a]) # {}
  /\ \E k \in Pids : /\ hist.pre.am.alive_mask[k] /\ hist.pre.agents[k].age = 0
                     /\ hist.pre.am.free_count = 0
  /\ hist.calls = 2

\* ---- C12, C14 ----
\* cell j (1..3) of the arc of direction d seen from record x
ArcCell(x, d, j) ==
  ((x.r + ATTACK_SWORD[d + 1][j][1] + cfg.height) % cfg.height) * cfg.width
  + ((x.c + ATTACK_SWORD[d + 1][j][2] + cfg.width) % cfg.width)
\* the cell held a wall or an agent when the call began
Occupied(a) == hist.pre.tile_props[a].wall_hp > 0 \/ hist.pre.pids_2d[a] # -1
\* the positions n = 3 * k + (j - 1) of the clockwise scan (k-th direction
\* from the facing, j-th cell of its arc) at which a wall or an agent stands
ScanHits(x) ==
  { n \in 0..11 : Occupied(ArcCell(x, (x.dir + n \div 3) % 4, (n % 3) + 1)) }
\* slot p attacks and every other alive slot does nothing
AttacksAlone(p) ==
  /\ Ticked
  /\ hist.pre.am.alive_mask[p]
  /\ actions[p] = ATTACK
  /\ \A q \in Pids \ {p} : hist.pre.am.alive_mask[q] => actions[q] = NOOP
\* after the action pass slot p is as a Noop leaves it, and no wall and no
\* agent's hp has changed
AsNoop(p) ==
  LET x == hist.pre.agents[p]
      y == hist.mid.agents[p]
  IN /\ \A a \in Cells : hist.mid.tile_props[a].wall_hp = hist.pre.tile_props[a].wall_hp
     /\ \A q \in Pids : hist.mid.agents[q].hp = hist.pre.agents[q].hp
     /\ y.dir = x.dir /\ y.r = x.r /\ y.c = x.c
     /\ y.satiation = Fed(x)
     /\ y.food_carried = x.food_carried - (Fed(x) - (x.satiation - METABOLISM_RATE))
     /\ y.stone_carried = x.stone_carried

\* C12: the target of an Attack is the first cell, scanning the directions
\* clockwise from the facing and the three cells of each arc in order, that
\* holds a wall or an agent; the attacker turns to that direction and the
\* wall loses 1 wall_hp or the agent 1 hp.  (A wall of hp 8 straight ahead
\* of an attacker facing right goes to 7.)
C12_AttackTargeting ==
  \A p \in Pids :
    (AttacksAlone(p) /\ ScanHits(hist.pre.agents[p]) # {}) =>
      LET x == hist.pre.agents[p]
          n == MinOf(ScanHits(x))
          d == (x.dir + n \div 3) % 4
          t == ArcCell(x, d, (n % 3) + 1)
      IN /\ hist.mid.agents[p].dir = d
         /\ IF hist.pre.tile_props[t].wall_hp > 0
            THEN hist.mid.tile_props[t].wall_hp = hist.pre.tile_props[t].wall_hp - 1
            ELSE hist.mid.agents[hist.pre.pids_2d[t]].hp
                   = hist.pre.agents[hist.pre.pids_2d[t]].hp - 1

\* C13: a wall on soil brought to wall_hp 0 by an Attack in summer leaves a
\* tile without wall, stone or stored food whose last_harvest is the day of
\* the tick, so that its growth days are 0 at the end of the step.
C13_WallDestroyedRestartsCrop ==
  \A a \in Cells :
    ( /\ Ticked
      /\ hist.pre.tile_props[a].wall_hp > 0
      /\ tile_props[a].wall_hp = 0
      /\ cfg.is_soil[a]
      /\ ~is_winter ) =>
        /\ tile_props[a].stone = 0
        /\ tile_props[a].stored_food = 0
        /\ tile_props[a].last_harvest = day_number_of(tick)
        /\ get_growth_days(Env, a \div cfg.width, a % cfg.width) = 0

\* C14 (as amended): an Attack by an agent none of whose eight neighbours
\* holds a wall or an agent changes no wall_hp and no hp and leaves the
\* attacker as a Noop would.
C14_AttackNothingAround ==
  \A p \in Pids :
    ( /\ AttacksAlone(p)
      /\ \A a \in Cells :
           Cheb(hist.pre.agents[p], [ r |-> a \div cfg.width, c |-> a % cfg.width ]) = 1
             => ~Occupied(a) )
    => AsNoop(p)

\* an agent with carried food attacked with nothing around it but stone
C14_Witness ==
  \E p \in Pids :
    /\ AttacksAlone(p)
    /\ \A a \in Cells :
         Cheb(hist.pre.agents[p], [ r |-> a \div cfg.width, c |-> a % cfg.width ]) = 1
           => ~Occupied(a)
    /\ \E a \in Cells :
         /\ Cheb(hist.pre.agents[p], [ r |-> a \div cfg.width, c |-> a % cfg.width ]) = 1
         /\ hist.pre.tile_props[a].stone > 0

\* C14 as stated: the same whenever the three cells of the facing arc are
\* empty of walls and agents.
C14_AttackEmptyArc ==
  \A p \in Pids :
    ( /\ AttacksAlone(p)
      /\ \A j \in 1..3 :
           ~Occupied(ArcCell(hist.pre.agents[p], hist.pre.agents[p].dir, j)) )
    => AsNoop(p)

\* ---- C15 ----
\* every slot alive when the call began moved, turned or did nothing
OnlyMoves ==
  /\ Ticked
  /\ \A p \in Pids :
       hist.pre.am.alive_mask[p] =>
         actions[p] \in {MOVE_UP, MOVE_RIGHT, MOVE_DOWN, MOVE_LEFT, NOOP}
\* the food carried by the slots alive when the call began plus the food
\* stored on the tiles, in environment e
TotalFood(e) ==
  SumOver([ p \in Pids |-> e.agents[p].food_carried ],
          { p \in Pids : hist.pre.am.alive_mask[p] })
  + SumOver([ a \in Cells |-> e.tile_props[a].stored_food ], Cells)
\* what record x eats at its turn
Meal(x) == Fed(x) - (x.satiation - METABOLISM_RATE)

\* C15 (as amended): in a step of moves and Noops the stored food of every
\* tile is unchanged and every agent carries what it carried less what it
\* ate at its turn, so the total falls by exactly the meals eaten.
C15_FoodLessMeals ==
  OnlyMoves =>
    /\ \A a \in Cells : tile_props[a].stored_food = hist.pre.tile_props[a].stored_food
    /\ \A p \in Pids :
         hist.pre.am.alive_mask[p] =>
           agents[p].food_carried
             = hist.pre.agents[p].food_carried - Meal(hist.pre.agents[p])
    /\ TotalFood(Env) = TotalFood(hist.pre)
         - SumOver([ p \in Pids |-> Meal(hist.pre.agents[p]) ],
                   { p \in Pids : hist.pre.am.alive_mask[p] })

\* a step of moves in which an agent carrying more food than it eats walked
\* to another tile, food lay stored on a tile, and a slot starved
C15_Witness ==
  /\ OnlyMoves
  /\ \E p \in Pids :
       /\ hist.pre.am.alive_mask[p]
       /\ hist.pre.agents[p].food_carried > Meal(hist.pre.agents[p])
       /\ Meal(hist.pre.agents[p]) > 0
       /\ <<agents[p].r, agents[p].c>> # <<hist.pre.agents[p].r, hist.pre.agents[p].c>>
  /\ \E a \in Cells : tile_props[a].stored_food > 0
  /\ \E q \in Pids : terminals[q] = 1

\* C15 as stated: the total is the same after the step as before it.
C15_FoodConserved ==
  OnlyMoves => TotalFood(Env) = TotalFood(hist.pre)

\* ---- C16 ----
\* C16: place_wall followed by destroy_wall on a tile that is not soil and
\* holds no stored food, stone, wall or agent leaves the four fields of the
\* tile, and every other tile, as they were; in summer and in winter.
C16_WallRoundTrip ==
  ( /\ hist.op = "round_trip"
    /\ ~cfg.is_soil[hist.at]
    /\ hist.pre.tile_props[hist.at].stored_food = 0
    /\ hist.pre.tile_props[hist.at].stone = 0
    /\ hist.pre.tile_props[hist.at].wall_hp = 0
    /\ hist.pre.pids_2d[hist.at] = -1 ) =>
      /\ hist.mid.tile_props[hist.at].wall_hp = WALL_HP_MAX
      /\ tile_props[hist.at] = hist.pre.tile_props[hist.at]
      /\ tile_props = hist.pre.tile_props

\* the round trip was made in winter on such a tile, after a step in which
\* the season had changed
C16_Witness ==
  /\ hist.op = "round_trip"
  /\ hist.calls = 2
  /\ is_winter /\ tick = 46
  /\ ~cfg.is_soil[hist.at]
  /\ hist.pre.tile_props[hist.at] = ZeroTile
  /\ hist.pre.pids_2d[hist.at] = -1
  /\ hist.mid.tile_props[hist.at].wall_hp = WALL_HP_MAX

\* ---- C17 ----
\* the world of e: every agent record, the alive set, pids_2d, the tiles,
\* every DNA row and the kinship matrix
World(e) ==
  [ agents |-> e.agents, am |-> e.am, pids_2d |-> e.pids_2d,
    tile_props |-> e.tile_props, dnas |-> e.dnas,
    kinship_matrix |-> e.kinship_matrix ]

\* the same with the records and DNA rows of the alive slots only, and the
\* clock, the budget and the family sizes and rewards of the alive slots
LiveWorld(e) ==
  LET alive == { p \in PidsOf(e) : e.am.alive_mask[p] }
  IN [ agents |-> [ p \in alive |-> e.agents[p] ], am |-> e.am,
       pids_2d |-> e.pids_2d, tile_props |-> e.tile_props,
       dnas |-> [ p \in alive |-> e.dnas[p] ],
       kinship_matrix |-> e.kinship_matrix,
       tick |-> e.tick, is_winter |-> e.is_winter,
       next_max_ep_length |-> e.next_max_ep_length,
       family_sizes |-> [ p \in alive |-> e.family_sizes[p] ],
       prev_family_sizes |-> [ p \in alive |-> e.prev_family_sizes[p] ],
       rewards |-> [ p \in alive |-> e.rewards[p] ],
       truncations |-> e.truncations ]

C18_ShuffleBijective ==
  Ticked =>
    LET n == hist.pre.am.alive_count
        before == hist.pre.am.alive_pids
    IN /\ { hist.order[i] : i \in 0 .. (n - 1) }
            = { p \in Pids : hist.pre.am.alive_mask[p] }
       /\ \A i, j \in 0 .. (n - 1) : i # j => hist.order[i] # hist.order[j]
       /\ { hist.order[i] : i \in 0 .. (n - 1) } = { before[i] : i \in 0 .. (n - 1) }
       /\ DOMAIN hist.order = DOMAIN before
       /\ \A i \in DOMAIN before : i >= n => hist.order[i] = before[i]

\* five agents were shuffled so that none kept its place, with slots left
\* over behind them in the list
C18_Witness ==
  /\ Ticked
  /\ hist.pre.am.alive_count = 5
  /\ \A i \in 0..4 : hist.order[i] # hist.pre.am.alive_pids[i]
  /\ \E i \in 5..8 : hist.pre.am.alive_pids[i] # 0

\* ---- C19 ----
\* the last call was a tick of the episode that began in the scene, with
\* slot 0 alone and Pickup in its buffer entry
Foraged ==
  /\ Ticked
  /\ tick = 55 + hist.calls
  /\ hist.pre.am.alive_count = 1 /\ hist.pre.am.alive_mask[0]
  /\ actions[0] = PICKUP

\* ticks since day 0
ForageTick == tick - 55

\* growth_days as the Pickup of the last call computed it: on the tile as the
\* call found it, with the clock and the season of the tick
SeenGrowth ==
  get_growth_days([hist.pre EXCEPT !.tick = tick, !.is_winter = is_winter],
                  hist.pre.agents[0].r, hist.pre.agents[0].c)

\* C19 (as stated): the lone forager issuing Pickup at every tick from summer
\* day 0 sees growth_days = 1 at tick 1 (harvest 0) and one more at every
\* tick, 70 at tick 70, where the crop is 150 and it then holds 150 minus
\* the food it has eaten.
C19_ForagerGrowthCounts ==
  Foraged =>
    /\ SeenGrowth = Min(ForageTick, MAX_GROWTH_DURATION)
    /\ ForageTick = 1 => agents[0].food_carried = 0
    /\ ForageTick = 70 =>
         /\ crop_available(SeenGrowth) = 150
         /\ agents[0].food_carried + agents[0].satiation
              = 150 + 100 - (METABOLISM_RATE * 70)

\* C19 (amended): the lone forager issuing Pickup at every tick from summer
\* day 0 sees growth_days = 1 at tick 1 and 2 at every later tick, as every
\* Pickup restarts the crop timer at the day the call began; every harvest
\* is 0 food; its satiation falls by 5 a tick and it starves at tick 20,
\* carrying nothing.
C19_ForagerHarvestsNothing ==
  Foraged =>
    /\ SeenGrowth = (IF ForageTick = 1 THEN 1 ELSE 2)
    /\ crop_available(SeenGrowth) = 0
    /\ agents[0].food_carried = 0
    /\ tile_props[0].stored_food = 0
    /\ tile_props[0].last_harvest = day_number_of(tick - 1)
    /\ agents[0].satiation = MAX_SATIATION - (METABOLISM_RATE * ForageTick)
    /\ ForageTick \in 1..20
    /\ (ForageTick = 20) = (terminals[0] = 1)
    /\ (ForageTick = 20) = (am.alive_count = 0)

\* the forager has just starved at tick 20 after twenty harvests of nothing
C19_Witness ==
  /\ Foraged
  /\ ForageTick = 20
  /\ hist.calls = 20
  /\ terminals[0] = 1
  /\ am.alive_count = 0
  /\ SeenGrowth = 2
  /\ agents[0].food_carried = 0

\* ---- C20 ----
\* the slots the last call computed a reward for
Rewarded == { p \in Pids : am.alive_mask[p] \/ terminals[p] = 1 }

\* sum of K[p][j] over the slots j alive after the death sweep
FamilyOf(p) == SumOver([ j \in Pids |-> kinship_matrix[p][j] ], AlivePids)

\* n_genes plus the kinship of p, by its DNA, to the slots of A
KinAtBirth(p, A) ==
  cfg.n_genes + SumOver([ j \in Pids |-> kinship_get(Env, p, j) ], A)

\* the sets of slots that may have been alive when p was born in the last
\* call: in a reset the slots seeded before it and its twin; in a tick the
\* slots alive when the call began and any of the others born in it
BirthSets(p) ==
  IF WasReset
  THEN { { j \in Pids : j < p } \cup (IF p % 2 = 0 THEN { p + 1 } ELSE {}) }
  ELSE { { j \in Pids : hist.pre.am.alive_mask[j] } \cup B :
           B \in SUBSET { j \in Pids \ {p} : /\ ~hist.pre.am.alive_mask[j]
                                             /\ hist.mid.am.alive_mask[j] } }

\* x is the family size p's reward is measured from
PrevUsed(p, x) ==
  IF Ticked /\ hist.pre.am.alive_mask[p]
  THEN x = hist.pre.family_sizes[p]
  ELSE \E A \in BirthSets(p) : x = KinAtBirth(p, A)

\* C20: after every step and reset, for every slot p alive or terminated in
\* the call, family_sizes[p] is the sum of K[p][j] over the slots alive
\* after the death sweep, the reward times n_genes is family_sizes[p] minus
\* the family size of p's previous reward (for a slot born in the call,
\* n_genes plus its kinship to the slots alive at its birth), and
\* prev_family_sizes[p] = family_sizes[p] afterwards; so a death of zero
\* kinship to p adds nothing to p's reward, and a slot dying with no kin
\* left gets minus its previous family size.
C20_DeltaReward ==
  (Ticked \/ WasReset) =>
    \A p \in Rewarded :
      /\ family_sizes[p] = FamilyOf(p)
      /\ PrevUsed(p, family_sizes[p] - rewards[p])
      /\ prev_family_sizes[p] = family_sizes[p]
      /\ ( /\ Ticked /\ am.alive_mask[p] /\ hist.pre.am.alive_mask[p]
           /\ \A j \in Pids : hist.mid.am.alive_mask[j] => hist.pre.am.alive_mask[j]
           /\ \A v \in Victims : kinship_matrix[p][v] = 0 ) => rewards[p] = 0
      /\ ( /\ Ticked /\ terminals[p] = 1 /\ hist.pre.am.alive_mask[p]
           /\ \A j \in AlivePids : kinship_matrix[p][j] = 0 ) =>
             rewards[p] = 0 - hist.pre.family_sizes[p]

\* a slot died leaving no kin and lost its whole family size, while a
\* survivor of zero kinship to it got reward 0
C20_Witness ==
  /\ Ticked
  /\ \E p, q \in Pids :
       /\ terminals[p] = 1 /\ hist.pre.am.alive_mask[p]
       /\ FamilyOf(p) = 0
       /\ rewards[p] = 0 - hist.pre.family_sizes[p]
       /\ rewards[p] < 0
       /\ am.alive_mask[q] /\ hist.pre.am.alive_mask[q]
       /\ kinship_matrix[q][p] = 0
       /\ rewards[q] = 0

\* ---- C21 ----
\* C21: with growth-rate rewards and n_genes in 0..3 the assertion of
\* _growth_rate_rewards never fails: a rewarded slot with family size 0 was
\* terminated in the call, every alive slot has family size >= 1 and a
\* previous family size >= 1 under its log-ratio reward, and an extinct slot
\* gets extinction_reward plus log(1 / prev) exactly when prev > 1.
C21_GrowthRewardSafe ==
  /\ "assert_growth_terminal" \notin fault
  /\ (cfg.reward_growth_rate /\ (Ticked \/ WasReset)) =>
       \A p \in Rewarded :
         /\ family_sizes[p] = 0 => terminals[p] = 1
         /\ am.alive_mask[p] =>
              /\ family_sizes[p] >= 1
              /\ rewards[p] = [ ext |-> 0, logged |-> TRUE,
                                num |-> family_sizes[p], den |-> rewards[p].den ]
              /\ rewards[p].den >= 1
         /\ (terminals[p] = 1 /\ family_sizes[p] = 0) =>
              /\ rewards[p].ext = 1
              /\ rewards[p].logged = (rewards[p].den > 1)
              /\ Ticked => rewards[p].logged = (hist.mid.prev_family_sizes[p] > 1)

\* ---- C22 ----
\* the buffer with every code outside 0..10 replaced by NOOP
AsValid(acts) ==
  [ p \in DOMAIN acts |-> IF acts[p] \in 0..10 THEN acts[p] ELSE NOOP ]
\* the alive slots whose code is outside 0..10
Strays == { p \in Pids : hist.pre.am.alive_mask[p] /\ actions[p] \notin 0..10 }
\* the tick made from hist.pre with the buffer acts and the values d and b
\* of rand() ends in the environment e, with the same shuffle
SameTick(acts, d, b, e) ==
  LET out == c_step_tick(hist.pre, acts, d, b)
  IN out.order = hist.order /\ out.e = e

\* C22: a code outside 0..10 acts as Noop: the step ends in the state it
\* would have reached with NOOP in its place (the action buffer aside), the
\* agent has aged, metabolised and eaten, and no fault is raised.
C22_StrayCodeIsNoop ==
  (Ticked /\ Strays # {}) =>
    /\ fault = hist.pre.fault
    /\ \E d \in SceneDraws : \E b \in SceneBirths :
         /\ SameTick(actions, d, b, Env)
         /\ SameTick(AsValid(actions), d, b, [Env EXCEPT !.actions = AsValid(actions)])
    /\ \A p \in Strays :
         hist.pre.agents[p].hp > 0 =>
           /\ hist.mid.agents[p].age = hist.pre.agents[p].age + 1
           /\ hist.mid.agents[p].satiation = Fed(hist.pre.agents[p])
           /\ hist.mid.agents[p].dir = hist.pre.agents[p].dir
           /\ hist.mid.agents[p].r = hist.pre.agents[p].r
           /\ hist.mid.agents[p].c = hist.pre.agents[p].c

\* slot 0 wrote -1 and ate from its pack, slot 2 wrote a code above 10, and
\* nobody was born, hit or moved
C22_Witness ==
  /\ Ticked /\ hist.calls = 1
  /\ actions[0] = -1 /\ actions[2] = 2147483647 /\ actions[1] = 11
  /\ agents[0].age = 20 /\ agents[0].satiation = 85 /\ agents[0].food_carried = 0
  /\ agents[0].hp = 1 /\ agents[2].hp = 3
  /\ am.alive_count = 2 /\ terminals[1] = 1

\* ---- C23 ----
\* the cells of the five stone deposits
StoneCells ==
  { ((cfg.height * (1 + 2 * ri)) \div 4) * cfg.width + ((cfg.width * (1 + 2 * ci)) \div 4) :
      ri \in 0..1, ci \in 0..1 }
  \cup { (cfg.height \div 2) * cfg.width + cfg.width \div 2 }
\* slot p is as spawn_agent leaves a slot, on a cell without stone that
\* holds it
FreshAt(p) ==
  LET x == agents[p]
  IN /\ InGrid(x.r, x.c)
     /\ pids_2d[x.r * cfg.width + x.c] = p
     /\ x.r * cfg.width + x.c \notin StoneCells
     /\ x.age = 0 /\ x.hp = 1 /\ x.hp_max = 1
     /\ x.satiation = 100 /\ x.max_satiation = 100
     /\ x.food_carried = 0 /\ x.stone_carried = 0

\* C23: after a reset, for every width, height >= 1 and max_agents >= 1,
\* exactly 8 slots are alive in 4 pairs; the members of a pair stand on
\* distinct unblocked Moore-adjacent cells with the same DNA (kinship
\* n_genes), age 0, hp = hp_max = 1, satiation 100 and nothing carried;
\* tick = 0, it is summer, and every tile is zero except the stone deposits
\* at 600.
C23_ResetSeedsFourPairs ==
  WasReset =>
    /\ "oob_spawn_full" \notin fault
    /\ am.alive_count = 8
    /\ AlivePids = 0..7
    /\ \A i \in 0..3 :
         /\ FreshAt(2 * i) /\ FreshAt(2 * i + 1)
         /\ Cheb(agents[2 * i], agents[2 * i + 1]) = 1
         /\ dnas[2 * i] = dnas[2 * i + 1]
         /\ kinship_matrix[2 * i][2 * i + 1] = cfg.n_genes
         /\ kinship_matrix[2 * i + 1][2 * i] = cfg.n_genes
    /\ tick = 0 /\ ~is_winter
    /\ \A a \in Cells :
         tile_props[a] = IF a \in StoneCells
                         THEN [ZeroTile EXCEPT !.stone = STONE_PER_MINE]
                         ELSE ZeroTile

\* ---- C24 ----
Spawned == hist.op = "spawn"
\* the slots on the free stack before the call that the last tick terminated
JustKilled ==
  { p \in Pids : hist.pre.terminals[p] = 1 /\ ~hist.pre.am.alive_mask[p] }

\* C24: spawn_agent returns -1 and changes nothing when alive_count =
\* max_agents; otherwise it returns the slot killed last that is still on
\* the free stack, or next_pid (the smallest id never used, then
\* incremented) when the stack is empty; the slot is alive in the mask and
\* in the bitset and alive_count has grown by 1.
C24_SpawnResult ==
  Spawned =>
    LET old == hist.pre.am
        pid == hist.ret
    IN IF old.alive_count = cfg.max_agents
       THEN pid = -1 /\ Env = hist.pre
       ELSE /\ pid \in Pids
            /\ ~old.alive_mask[pid]
            /\ am.alive_mask[pid] /\ pid \in am.alive_bitset
            /\ am.alive_count = old.alive_count + 1
            /\ \A q \in Pids \ {pid} :
                 /\ am.alive_mask[q] = old.alive_mask[q]
                 /\ (q \in am.alive_bitset) = (q \in old.alive_bitset)
            /\ IF old.free_count > 0
               THEN /\ pid = old.free_pids[old.free_count - 1]
                    /\ am.free_count = old.free_count - 1
                    /\ am.next_pid = old.next_pid
                    /\ JustKilled # {} => pid = MinOf({ p \in JustKilled :
                                              \A q \in JustKilled : q <= p })
               ELSE /\ pid = old.next_pid
                    /\ am.next_pid = pid + 1
                    /\ am.free_count = 0
                    /\ \A q \in Pids : q < pid <=> old.alive_mask[q]

\* the slots 1 and 3 starved in the tick before; the call returned slot 3,
\* the one the sweep killed last, and not the child's parents' old
\* neighbours 4..7 killed long before
C24_Witness ==
  /\ Spawned /\ hist.calls = 2
  /\ hist.pre.terminals[1] = 1 /\ hist.pre.terminals[3] = 1
  /\ hist.ret = 3
  /\ am.alive_mask[3] /\ ~am.alive_mask[1]
  /\ agents[3].r = 3 /\ agents[3].c = 7 /\ agents[3].age = 0

\* the eight slots of an 8-slot grid were alive: the call returned -1
C24_WitnessFull ==
  /\ Spawned /\ hist.ret = -1 /\ hist.pre.am.alive_count = 8

\* ---- C25 ----
\* the slots spawned in the action pass of the last tick
BornInPass ==
  { p \in Pids : Ticked /\ hist.mid.am.alive_mask[p] /\ ~hist.pre.am.alive_mask[p] }
\* the entries of the kinship matrix that differ from those the call began with
KinChanged ==
  { ij \in Pids \X Pids :
      kinship_matrix[ij[1]][ij[2]] # hist.pre.kinship_matrix[ij[1]][ij[2]] }

\* C25: a tick changes the kinship matrix only in off-diagonal entries of
\* the row and column of a slot spawned in it, against slots alive at that
\* moment; kills and ticks without births change nothing, so a slot
\* terminated in the tick still has its pre-death row when the rewards are
\* computed.
C25_KinshipFrame ==
  Ticked =>
    /\ \A ij \in KinChanged :
         /\ ij[1] # ij[2]
         /\ ij[1] \in BornInPass \/ ij[2] \in BornInPass
         /\ hist.mid.am.alive_mask[ij[1]] /\ hist.mid.am.alive_mask[ij[2]]
    /\ BornInPass = {} => kinship_matrix = hist.pre.kinship_matrix
    /\ kinship_matrix = hist.mid.kinship_matrix
    /\ \A p \in Pids :
         (terminals[p] = 1 /\ p \notin BornInPass) =>
           \A q \in Pids \ BornInPass :
             kinship_matrix[p][q] = hist.pre.kinship_matrix[p][q]

\* a child was born into a reused slot, whose row changed, in the tick in
\* which a slot with living kin starved and kept its row
C25_Witness ==
  /\ Ticked
  /\ \E ch \in BornInPass : \E v \in Pids \ BornInPass : \E q \in AlivePids \ {ch} :
       /\ am.alive_mask[ch]
       /\ \E j \in Pids : <<ch, j>> \in KinChanged
       /\ terminals[v] = 1 /\ ~am.alive_mask[v]
       /\ kinship_matrix[v][q] > 0
       /\ kinship_matrix[v][q] = hist.pre.kinship_matrix[v][q]

\* ---- C26 ----
\* the number of gene positions at which the DNA rows of i and j agree
Agreement(i, j) ==
  Cardinality({ g \in 0 .. (cfg.n_genes - 1) : dnas[i][g] = dnas[j][g] })

\* C26: for any two distinct alive slots the kinship matrix holds the
\* number of gene positions at which their current DNA agrees, in every
\* state, also after slots were freed and reused and after a reset.
C26_KinshipIsAgreement ==
  \A i, j \in AlivePids : i # j => kinship_matrix[i][j] = Agreement(i, j)

\* a child was born into a freed slot with genes other than those of the
\* slot's last holder, and its entry against an alive slot was rewritten
C26_Witness ==
  /\ Ticked
  /\ \E ch \in Born : \E q \in AlivePids \ {ch} :
       /\ ch < hist.pre.am.next_pid
       /\ dnas[ch] # hist.pre.dnas[ch]
       /\ kinship_matrix[ch][q] # hist.pre.kinship_matrix[ch][q]
       /\ kinship_matrix[ch][q] = Agreement(ch, q)
       /\ Agreement(ch, q) < cfg.n_genes

\* ---- C27 ----
\* the day of the tick counter as the call left it
Today == day_number_of(tick)

\* C27: after every step that does not reset, is_winter is true exactly
\* when the day (tick + 55) mod 110 of the new tick is >= 100, so no tile
\* has growth days on a day >= SUMMER_DURATION; and in the step in which
\* is_winter turns false every soil tile's last_harvest is set to 0 before
\* any agent acts.
C27_SeasonTracksDay ==
  Ticked =>
    /\ is_winter = (Today >= SUMMER_DURATION)
    /\ Today >= SUMMER_DURATION =>
         \A a \in Cells : get_growth_days(Env, a \div cfg.width, a % cfg.width) = 0
    /\ (hist.pre.is_winter /\ ~is_winter) =>
         \A a \in Cells :
           cfg.is_soil[a] =>
             tile_props[a].last_harvest \in { 0, day_number_of(hist.pre.tick) }

\* ---- C28 ----
\* the environment the action pass of the last tick began with
PassStart ==
  [update_season([hist.pre EXCEPT !.terminals = [ p \in Pids |-> 0 ],
                                  !.actions = actions],
                 day_number_of(hist.pre.tick))
     EXCEPT !.tick = @ + 1, !.am.alive_pids = hist.order]
\* the environment after the first k turns of that pass
Replay(k, b) == action_pass(PassStart, 0, k, day_number_of(hist.pre.tick), b)
\* the values of rand() the births of the pass drew
TheBirth ==
  CHOOSE b \in SceneBirths :
    /\ Replay(hist.pre.am.alive_count, b).agents = hist.mid.agents
    /\ Replay(hist.pre.am.alive_count, b).pids_2d = hist.mid.pids_2d
    /\ Replay(hist.pre.am.alive_count, b).dnas = hist.mid.dnas
CellOf(x) == x.r * cfg.width + x.c
\* the cell next to record x in the direction a, across the edges
Ahead(x, a) ==
  LET r == IF a = MOVE_UP THEN x.r - 1 ELSE IF a = MOVE_DOWN THEN x.r + 1 ELSE x.r
      c == IF a = MOVE_RIGHT THEN x.c + 1 ELSE IF a = MOVE_LEFT THEN x.c - 1 ELSE x.c
  IN ((r + cfg.height) % cfg.height) * cfg.width + ((c + cfg.width) % cfg.width)
\* a slot whose alive flag is set stands on cell a in E
HolderIn(E, a) ==
  { q \in Pids : E.am.alive_mask[q] /\ CellOf(E.agents[q]) = a }
BlockedIn(E, a) ==
  E.tile_props[a].wall_hp > 0 \/ E.tile_props[a].stone > 0 \/ HolderIn(E, a) # {}
\* the slots that wrote a move and had hp > 0 at their turn
Movers ==
  { p \in Pids : /\ Ticked /\ hist.pre.am.alive_mask[p]
                 /\ actions[p] \in MOVE_UP .. MOVE_LEFT
                 /\ Replay(PosIn(p), TheBirth).agents[p].hp > 0 }

\* C28: a move a that differs from the facing only turns the agent; a move
\* that equals it takes the agent to the adjacent cell across the edges
\* exactly when that cell has no wall, no stone and no agent (agents at
\* hp <= 0 and children born earlier in the tick count), clearing pids_2d
\* at the old cell and setting it at the new one; dir = a afterwards.
C28_MoveSemantics ==
  \A p \in Movers :
    LET E == Replay(PosIn(p), TheBirth)
        F == Replay(PosIn(p) + 1, TheBirth)
        x == E.agents[p]
        y == F.agents[p]
        a == actions[p]
    IN /\ y.dir = a /\ hist.mid.agents[p].dir = a
       /\ IF a = x.dir /\ ~BlockedIn(E, Ahead(x, a))
          THEN /\ CellOf(y) = Ahead(x, a)
               /\ F.pids_2d = [E.pids_2d EXCEPT ![CellOf(x)] = -1,
                                                ![Ahead(x, a)] = p]
          ELSE /\ CellOf(y) = CellOf(x)
               /\ F.pids_2d = E.pids_2d
       /\ F.tile_props = E.tile_props
       /\ \A q \in Pids \ {p} : F.agents[q] = E.agents[q]

\* slot 1 moved right at the right edge while slot 2, beyond the edge, had
\* been hit to hp 0 and was waiting for the sweep: slot 1 stayed
C28_Witness ==
  /\ Ticked /\ hist.calls = 1
  /\ 1 \in Movers /\ actions[1] = MOVE_RIGHT /\ hist.pre.agents[1].dir = MOVE_RIGHT
  /\ Replay(PosIn(1), TheBirth).agents[2].hp <= 0
  /\ CellOf(hist.pre.agents[2]) = Ahead(hist.pre.agents[1], MOVE_RIGHT)
  /\ hist.mid.agents[1].c = 7 /\ hist.mid.agents[1].r = 0
  /\ terminals[2] = 1

\* ---- C29 ----
\* the cells around record x
Around(x) == { a \in Cells : Cheb([ r |-> a \div cfg.width, c |-> a % cfg.width ], x) = 1 }
\* the slots next to record x that wrote Reproduce and are eligible in E
MatesIn(E, x) ==
  { q \in Pids : /\ E.am.alive_mask[q]
                 /\ Cheb(E.agents[q], x) = 1
                 /\ actions[q] = REPRODUCE
                 /\ E.agents[q].age >= REPRODUCTION_AGE
                 /\ E.agents[q].satiation > MAX_SATIATION \div 2 }
\* slot a wrote Reproduce and, when its turn came in E, was eligible below
\* capacity with a partner next to it
Suitor(E, a) ==
  /\ Ticked /\ hist.pre.am.alive_mask[a] /\ actions[a] = REPRODUCE
  /\ E.agents[a].hp > 0
  /\ E.agents[a].age + 1 >= REPRODUCTION_AGE
  /\ Fed(E.agents[a]) > MAX_SATIATION \div 2
  /\ E.am.alive_count < cfg.max_agents
  /\ MatesIn(E, E.agents[a]) # {}

\* C29: a Reproduce with an eligible partner but with all eight neighbours
\* of the acting agent blocked has no effect: no child is spawned, neither
\* agent loses satiation, and no pids_2d entry, DNA row or kinship entry
\* changes.
C29_ReproduceNeedsFreeCell ==
  \A a \in Pids :
    LET E == Replay(PosIn(a), TheBirth)
        F == Replay(PosIn(a) + 1, TheBirth)
    IN (/\ Ticked /\ hist.pre.am.alive_mask[a]
        /\ Suitor(E, a)
        /\ \A n \in Around(E.agents[a]) : BlockedIn(E, n)) =>
         /\ F.am = E.am
         /\ F.agents[a].satiation = Fed(E.agents[a])
         /\ \A q \in Pids \ {a} : F.agents[q] = E.agents[q]
         /\ F.pids_2d = E.pids_2d
         /\ F.dnas = E.dnas
         /\ F.kinship_matrix = E.kinship_matrix
         /\ "oob_pids_2d" \notin fault

\* ---- C30 ----
\* the slots other than a that paid for a birth in the turn from E to F
PaidIn(E, F, a) ==
  { q \in Pids \ {a} :
      F.agents[q].satiation = E.agents[q].satiation - MAX_SATIATION \div 2 }

\* C30: the partner a Reproduce selects has its alive flag set and hp > 0
\* (it was not brought to hp <= 0 earlier in the pass), stands in a
\* neighbouring cell, wrote Reproduce, and has age >= 10 and satiation >
\* max_satiation / 2 when it is selected.
C30_MateIsLive ==
  \A a \in Pids :
    LET E == Replay(PosIn(a), TheBirth)
        F == Replay(PosIn(a) + 1, TheBirth)
    IN (/\ Ticked /\ hist.pre.am.alive_mask[a] /\ actions[a] = REPRODUCE
        /\ F.am.alive_count = E.am.alive_count + 1) =>
         /\ Cardinality(PaidIn(E, F, a)) = 1
         /\ \A q \in PaidIn(E, F, a) :
              /\ E.am.alive_mask[q]
              /\ E.agents[q].hp > 0
              /\ Cheb(E.agents[q], E.agents[a]) = 1
              /\ actions[q] = REPRODUCE
              /\ E.agents[q].age >= REPRODUCTION_AGE
              /\ E.agents[q].satiation > MAX_SATIATION \div 2

\* the turns of the last pass at which an agent with hp > 0 chose ATTACK and
\* hit the agent t: <<attacker, t>>
Blows ==
  { x \in Pids \X Pids :
      /\ Ticked /\ hist.pre.am.alive_mask[x[1]] /\ actions[x[1]] = ATTACK
      /\ Replay(PosIn(x[1]), TheBirth).agents[x[1]].hp > 0
      /\ Replay(PosIn(x[1]) + 1, TheBirth).agents[x[2]].hp
           < Replay(PosIn(x[1]), TheBirth).agents[x[2]].hp }
\* the attacker's satiation, stone and food once its own ageing, metabolism
\* and meal are done, before the blow
Upkeep(x) == pre_action(Replay(PosIn(x[1]), TheBirth), x[1]).agents[x[1]]
\* the attacker of x ends its turn with the loot of its target added
Loots(x) ==
  LET E == Replay(PosIn(x[1]), TheBirth)
      F == Replay(PosIn(x[1]) + 1, TheBirth)
      me == Upkeep(x)
      t == E.agents[x[2]]
  IN /\ F.agents[x[1]].satiation
          = Min(MAX_SATIATION, me.satiation + CDiv(t.satiation, 2))
     /\ F.agents[x[1]].stone_carried
          = Min(MAX_STONE_CARRYING_CAPACITY, me.stone_carried + t.stone_carried)
     /\ F.agents[x[1]].food_carried
          = Min(MAX_FOOD_CARRYING_CAPACITY, me.food_carried + t.food_carried)
\* the attacker of x ends its turn with what its upkeep left it
GainsNothing(x) ==
  LET F == Replay(PosIn(x[1]) + 1, TheBirth)
      me == Upkeep(x)
  IN /\ F.agents[x[1]].satiation = me.satiation
     /\ F.agents[x[1]].stone_carried = me.stone_carried
     /\ F.agents[x[1]].food_carried = me.food_carried
\* the blows that landed on a target already at hp <= 0
LateBlows ==
  { x \in Blows : Replay(PosIn(x[1]), TheBirth).agents[x[2]].hp <= 0 }

\* C31 (as stated): an attacker that hits a victim already brought to hp 0
\* earlier in the pass loots it again.
C31_LootedAgain == \A x \in LateBlows : Loots(x)

\* C31: a victim brought to hp <= 0 keeps its cell in pids_2d and its alive
\* flag until the death sweep of the same step; the blow that brings its hp
\* to exactly 0 loots it, and a later blow in the same pass still lands (hp
\* falls below 0) but gains the attacker nothing: a victim is looted at most
\* once in a step.
C31_LootedOnce ==
  /\ \A p \in Pids :
       (Ticked /\ hist.pre.am.alive_mask[p] /\ hist.mid.agents[p].hp <= 0) =>
         /\ hist.mid.am.alive_mask[p]
         /\ hist.mid.pids_2d[CellOf(hist.mid.agents[p])] = p
         /\ ~am.alive_mask[p]
         /\ pids_2d[CellOf(hist.mid.agents[p])] # p
  /\ \A x \in Blows :
       IF Replay(PosIn(x[1]) + 1, TheBirth).agents[x[2]].hp = 0
       THEN Loots(x) ELSE GainsNothing(x)
  /\ \A t \in Pids :
       Cardinality({ x \in Blows : x[2] = t /\ Loots(x) /\ ~GainsNothing(x) }) <= 1

\* two blows on one victim in one pass, the second on a victim at hp 0
C31_Witness ==
  /\ LateBlows # {}
  /\ \E x \in Blows, y \in LateBlows :
       x[2] = y[2] /\ x[1] # y[1] /\ Loots(x) /\ ~GainsNothing(x)

\* the capacity bounds on the agents and tiles of environment E
Bounded(E) ==
  /\ \A p \in Pids :
       E.am.alive_mask[p] =>
         /\ E.agents[p].food_carried \in 0 .. MAX_FOOD_CARRYING_CAPACITY
         /\ E.agents[p].stone_carried \in 0 .. MAX_STONE_CARRYING_CAPACITY
         /\ E.agents[p].role \in 0 .. (cfg.n_roles - 1)
  /\ \A a \in Cells :
       /\ E.tile_props[a].stored_food \in 0 .. MAX_FOOD_STORAGE_CAPACITY
       /\ E.tile_props[a].stone \in 0 .. STONE_PER_MINE
       /\ E.tile_props[a].wall_hp \in 0 .. WALL_HP_MAX

\* C32: in every state, after the action pass and after the death sweep,
\* every alive agent has food_carried in 0..150, stone_carried in 0..10 and
\* role in 0..n_roles-1, and every tile has stored_food in 0..150, stone in
\* 0..600 and wall_hp in 0..8.
C32_CapacityBounds == Bounded(Env) /\ Bounded(hist.mid)

\* Package filled a tile to 150 in the last step and left food with the
\* agent, which also holds 10 stones
C32_Witness ==
  /\ Ticked
  /\ \E p \in AlivePids :
       /\ actions[p] = PACKAGE_FOOD
       /\ tile_props[CellOf(agents[p])].stored_food = MAX_FOOD_STORAGE_CAPACITY
       /\ hist.pre.tile_props[CellOf(agents[p])].stored_food
            < MAX_FOOD_STORAGE_CAPACITY
       /\ agents[p].food_carried > 0
       /\ agents[p].stone_carried = MAX_STONE_CARRYING_CAPACITY

\* the number of turns of the last pass
Turns == hist.pre.am.alive_count
\* the turn in which slot b was spawned
BirthTurn(b) ==
  CHOOSE k \in 0 .. (Turns - 1) :
    /\ ~Replay(k, TheBirth).am.alive_mask[b]
    /\ Replay(k + 1, TheBirth).am.alive_mask[b]
\* slot p, alive at the start of the step, takes its turn: the upkeep and
\* then the action, or nothing at all at hp <= 0
TurnOf(p) ==
  LET E == Replay(PosIn(p), TheBirth)
      F == Replay(PosIn(p) + 1, TheBirth)
      U == pre_action(E, p)
  IN /\ E.agents[p].age = hist.pre.agents[p].age
     /\ IF E.agents[p].hp > 0
        THEN /\ U.agents[p].age = hist.pre.agents[p].age + 1
             /\ U.agents[p].satiation + U.agents[p].food_carried
                  = E.agents[p].satiation - METABOLISM_RATE + E.agents[p].food_carried
             /\ [ F EXCEPT !.fault = {} ]
                  = [ agent_act(U, p, day_number_of(hist.pre.tick), TheBirth)
                        EXCEPT !.fault = {} ]
             /\ hist.mid.agents[p].age = hist.pre.agents[p].age + 1
        ELSE /\ F = E
             /\ hist.mid.agents[p].age = hist.pre.agents[p].age
             /\ hist.mid.agents[p].food_carried = hist.pre.agents[p].food_carried
             /\ hist.mid.agents[p].dir = hist.pre.agents[p].dir
             /\ CellOf(hist.mid.agents[p]) = CellOf(hist.pre.agents[p])

\* C33: in a step that does not reset, the agents alive at its start take
\* one turn each in the shuffled order: ageing, metabolism and the meal,
\* then the action; an agent at hp <= 0 when its turn comes is skipped
\* entirely.  A child born in the step takes no turn (its age is 0 after the
\* pass), but from the turn of its birth on it holds its cell in pids_2d and
\* its alive flag is set, for the agents that act later.
C33_OneTurnEach ==
  Ticked =>
    /\ { hist.order[i] : i \in 0 .. (Turns - 1) }
         = { p \in Pids : hist.pre.am.alive_mask[p] }
    /\ \A i, j \in 0 .. (Turns - 1) : hist.order[i] = hist.order[j] => i = j
    /\ \A p \in Pids : hist.pre.am.alive_mask[p] => TurnOf(p)
    /\ \A b \in BornInPass :
         /\ hist.mid.agents[b].age = 0
         /\ \A k \in (BirthTurn(b) + 1) .. Turns :
              /\ Replay(k, TheBirth).am.alive_mask[b]
              /\ Replay(k, TheBirth).pids_2d[CellOf(hist.mid.agents[b])] = b
              /\ Replay(k, TheBirth).agents[b].age = 0
    /\ \A b \in Born : agents[b].age = 0

\* a child born at cell 11 took no turn and stopped the move of slot 1,
\* which acted later in the same pass
C33_Witness ==
  /\ Ticked /\ hist.calls = 1
  /\ \E b \in BornInPass :
       /\ BirthTurn(b) < PosIn(1)
       /\ actions[1] = MOVE_LEFT
       /\ Ahead(hist.pre.agents[1], MOVE_LEFT) = CellOf(hist.mid.agents[b])
       /\ CellOf(hist.mid.agents[1]) = CellOf(hist.pre.agents[1])
       /\ hist.mid.agents[1].age = hist.pre.agents[1].age + 1
       /\ agents[b].age = 0

\* the slots that wrote Pickup and had hp > 0 at their turn
Pickers ==
  { p \in Pids : /\ Ticked /\ hist.pre.am.alive_mask[p] /\ actions[p] = PICKUP
                 /\ Replay(PosIn(p), TheBirth).agents[p].hp > 0 }
\* the Pickup of slot p: U is the environment after its upkeep, F after its
\* turn, day the day the step began on
PickupAsSpecified(p, U, F, day) ==
  LET t == CellOf(U.agents[p])
      s == U.tile_props[t].stored_food
      room == MAX_FOOD_CARRYING_CAPACITY - U.agents[p].food_carried
      growth_days == get_growth_days(U, U.agents[p].r, U.agents[p].c)
      crop == crop_available(growth_days)
  IN /\ \A a \in Cells \ {t} : F.tile_props[a] = U.tile_props[a]
     /\ F.agents[p].stone_carried = U.agents[p].stone_carried
     /\ F.tile_props[t].stone = U.tile_props[t].stone
     /\ F.tile_props[t].wall_hp = U.tile_props[t].wall_hp
     /\ IF s > 0
        THEN /\ F.agents[p].food_carried = U.agents[p].food_carried + Min(s, room)
             /\ F.tile_props[t].stored_food = s - Min(s, room)
             /\ F.tile_props[t].last_harvest =
                  IF F.tile_props[t].stored_food = 0 /\ day < SUMMER_DURATION
                     /\ cfg.is_soil[t]
                  THEN day ELSE U.tile_props[t].last_harvest
        ELSE IF growth_days > 0
        THEN /\ F.tile_props[t].last_harvest = day
             /\ F.agents[p].food_carried = U.agents[p].food_carried + Min(crop, room)
             /\ F.tile_props[t].stored_food = crop - Min(crop, room)
        ELSE /\ F.tile_props[t] = U.tile_props[t]
             /\ F.agents[p].food_carried = U.agents[p].food_carried

FreeOf(E) == { E.am.free_pids[i] : i \in 0 .. (E.am.free_count - 1) }
\* the free stack and the alive set of E partition 0 .. next_pid - 1
PoolIntact(E) ==
  /\ \A i, j \in 0 .. (E.am.free_count - 1) :
       E.am.free_pids[i] = E.am.free_pids[j] => i = j
  /\ \A p \in FreeOf(E) : p \in Pids /\ ~E.am.alive_mask[p]
  /\ FreeOf(E) \cup { p \in Pids : E.am.alive_mask[p] } = 0 .. (E.am.next_pid - 1)
  /\ E.am.next_pid = E.am.alive_count + E.am.free_count
  /\ E.am.next_pid <= cfg.max_agents
  /\ E.am.alive_count = Cardinality({ p \in Pids : E.am.alive_mask[p] })
\* what spawn_agent would return in E is -1 or a slot below N that is dead
SpawnIsFresh(E) ==
  LET out == spawn_agent(E, 0, 0, 0)
  IN \/ out.pid = -1 /\ E.am.alive_count = cfg.max_agents
     \/ out.pid \in Pids /\ ~E.am.alive_mask[out.pid]
\* kill_agent on a dead slot of E changes nothing
KillDeadIsNoop(E) == \A p \in Pids : ~E.am.alive_mask[p] => kill_agent(E, p) = E

\* C35: in every state (after the action pass too) the free stack holds no
\* duplicate and no alive id, it partitions 0 .. next_pid - 1 with the alive
\* set, and next_pid = alive_count + free_count <= N; spawn_agent returns -1
\* or a dead slot below N, and kill_agent of a dead slot changes nothing.
C35_SlotPool ==
  /\ PoolIntact(Env) /\ PoolIntact(hist.mid)
  /\ SpawnIsFresh(Env) /\ SpawnIsFresh(hist.mid)
  /\ KillDeadIsNoop(Env)
  /\ Spawned /\ hist.ret # -1 => hist.ret \in Pids /\ ~hist.pre.am.alive_mask[hist.ret]

\* spawn_agent reused the top of a free stack of two or more slots, with
\* slots never used still left
C35_Witness ==
  /\ Spawned /\ hist.ret # -1
  /\ hist.pre.am.free_count >= 2
  /\ am.free_count = hist.pre.am.free_count - 1
  /\ am.next_pid < cfg.max_agents
  /\ \E p \in Pids : hist.pre.terminals[p] = 1

\* the slots that were a partner in a birth of the last pass before their
\* own turn: satiation fell between the start of the step and their turn
Courted ==
  { p \in Pids : /\ Ticked /\ hist.pre.am.alive_mask[p]
                 /\ Replay(PosIn(p), TheBirth).agents[p].satiation
                      < hist.pre.agents[p].satiation }

\* C36: the assertion at the start of a turn never fails: an agent that
\* reaches its turn with hp > 0 has satiation > 0, also when it was the
\* partner of a neighbour earlier in the pass, which can happen only once in
\* a pass since it leaves the partner with at most half of MAX_SATIATION.
C36_TurnAssertion ==
  /\ "assert_satiation" \notin fault
  /\ Ticked =>
       \A p \in Pids :
         hist.pre.am.alive_mask[p] =>
           /\ Replay(PosIn(p), TheBirth).agents[p].hp > 0
                => Replay(PosIn(p), TheBirth).agents[p].satiation > 0
           /\ Replay(PosIn(p), TheBirth).agents[p].satiation
                >= hist.pre.agents[p].satiation - MAX_SATIATION \div 2
           /\ hist.mid.agents[p].satiation > -METABOLISM_RATE

\* slot 2 began the step at 56 or less, was the partner of a suitor before
\* its turn, reached its turn with satiation 1..6 and starved in that step
\* while the other suitor, acting later, found no partner
C36_Witness ==
  /\ Ticked /\ hist.calls = 1
  /\ actions[0] = REPRODUCE /\ actions[1] = REPRODUCE
  /\ 2 \in Courted
  /\ PosIn(2) = 2
  /\ Replay(2, TheBirth).agents[2].satiation \in 1 .. 6
  /\ terminals[2] = 1
  /\ Cardinality(BornInPass) = 1

\* in E every tile has growth days in 0..70, and on a soil tile in summer
\* last_harvest is not later than the day get_growth_days subtracts it from
GrowthInRange(E) ==
  \A a \in Cells :
    /\ get_growth_days(E, a \div cfg.width, a % cfg.width) \in 0 .. MAX_GROWTH_DURATION
    /\ (~E.is_winter /\ cfg.is_soil[a])
         => E.tile_props[a].last_harvest <= day_number_of(E.tick)

\* C37: get_growth_days is in 0..70 for every tile after every call, after
\* every action pass and at every turn of a pass: last_harvest never
\* exceeds the day it is subtracted from, across Pickup, Package, walls
\* placed and destroyed, the return of the summer and the reset.
C37_GrowthDaysInRange ==
  /\ GrowthInRange(Env)
  /\ GrowthInRange(hist.mid)
  /\ Ticked => \A k \in 0 .. Turns : GrowthInRange(Replay(k, TheBirth))

\* the step that brings the summer back: before it a soil tile was last
\* harvested on a day later than the new day, after it the timer is 0
C37_Witness ==
  /\ Ticked /\ hist.pre.is_winter /\ ~is_winter
  /\ \E a \in Cells :
       /\ cfg.is_soil[a]
       /\ hist.pre.tile_props[a].last_harvest > day_number_of(tick)
       /\ tile_props[a].stored_food = 0 /\ tile_props[a].wall_hp = 0
       /\ get_growth_days(Env, a \div cfg.width, a % cfg.width) = 1

\* the slots that gained nothing in the last step: they carried no food
\* before or after it and their satiation did not rise
Unfed ==
  { p \in Pids : /\ Ticked /\ hist.pre.am.alive_mask[p]
                 /\ hist.pre.agents[p].food_carried = 0
                 /\ hist.mid.agents[p].food_carried = 0
                 /\ \A x \in Blows : x[1] = p => GainsNothing(x) }
\* every call so far left the agents without food
Foodless == \A p \in AlivePids : agents[p].food_carried = 0
\* an agent that has gained nothing since its spawn has lost 5 or more of
\* its 100 units of satiation in every step of its life
StarvesOnTime(E, p) ==
  /\ E.agents[p].satiation <= MAX_SATIATION - METABOLISM_RATE * E.agents[p].age
  /\ E.agents[p].age <= (MAX_SATIATION \div METABOLISM_RATE) - 1
\* the episode has been seeded and is running, and the calls left suffice
\* for its 20 steps and one call more
Seeded ==
  /\ am.alive_count > 0
  /\ hist.calls - tick + (MAX_SATIATION \div METABOLISM_RATE) + 1 <= MaxStarveCalls
\* the step just taken killed the last agents
AllDead == Ticked /\ am.alive_count = 0 /\ hist.pre.am.alive_count > 0
\* the call just made found nobody alive and reset the episode
Reseeded == WasReset /\ hist.pre.am.alive_count = 0 /\ hist.calls > 1

\* what holds of every state of a run without food
StarvationFrame ==
  /\ \A p \in Unfed :
       /\ \/ hist.mid.agents[p].satiation
               <= hist.pre.agents[p].satiation - METABOLISM_RATE
          \/ hist.mid.agents[p].hp <= 0
       /\ am.alive_mask[p] =>
            agents[p].satiation <= hist.pre.agents[p].satiation - METABOLISM_RATE
  /\ Foodless => (\A p \in AlivePids : StarvesOnTime(Env, p))
  /\ (Foodless /\ tick >= MAX_SATIATION \div METABOLISM_RATE) => am.alive_count = 0
  /\ (hist.calls > 0 /\ hist.pre.am.alive_count = 0) => WasReset

\* C38: an agent that gains no food and no loot loses at least 5 of its
\* satiation in every step it lives through, so it is killed by the sweep of
\* the 20th step after its spawn at the latest; in a run without any food
\* all agents of an episode die, by tick 20, and the next call of c_step
\* resets the episode.
C38_BoundedStarvation ==
  /\ []StarvationFrame
  /\ (Seeded ~> AllDead)
  /\ (AllDead ~> Reseeded)

\* the 20th step of an episode killed the eight agents seeded at its reset,
\* all at age 20 with satiation 0
C38_Witness ==
  /\ AllDead /\ tick = 20
  /\ \A p \in 0..7 : /\ hist.pre.am.alive_mask[p] /\ terminals[p] = 1
                     /\ agents[p].age = 20 /\ agents[p].satiation = 0
                     /\ hist.pre.agents[p].age = 19

\* the cells the seeding loop accepts for its next pair
Acceptable ==
  { adr \in Cells : SeedPair(Env, hist.ret, adr, SceneRnd(0)).ok }

\* C39: reset terminates on every grid: whenever the seeding loop of
\* c_reset is waiting for a pair, some cell is unblocked and has an
\* unblocked neighbour, so the loop can leave.
C39_SeedingCanLeave ==
  (hist.op = "seeding" /\ hist.ret < 4) => Acceptable # {}

\* the soil tiles without a wall whose crop timer a summer step's harvest
\* (Pickup or Package) wrote
Harvested ==
  { a \in Cells :
      /\ cfg.is_soil[a]
      /\ hist.pre.tile_props[a].wall_hp = 0
      /\ tile_props[a].wall_hp = 0
      /\ tile_props[a].last_harvest # hist.pre.tile_props[a].last_harvest }

\* C40: harvest-day consistency: the day a summer step's harvest writes
\* into last_harvest is the day get_growth_days subtracts from at the end
\* of that step, so a tile harvested in the step and left without stored
\* food has growth_days 0 in the step's observations.
C40_HarvestDayConsistent ==
  (Ticked /\ ~hist.pre.is_winter /\ ~is_winter) =>
    \A a \in Harvested :
      /\ tile_props[a].last_harvest = day_number_of(tick)
      /\ get_growth_days(Env, a \div cfg.width, a % cfg.width) = 0

====
